---------------------------- MODULE Spec2Model ----------------------------
(***************************************************************************)
(* Local Memory Vault (LMV): the encrypted storage engine (src/src/        *)
(* storage.ts), its envelope codec (src/src/crypto.ts), the request        *)
(* surface's write gate (src/src/server.ts) and the passphrase rotation    *)
(* script (src/scripts/reencrypt.ts).                                      *)
(*                                                                         *)
(* Strings that the code inspects character by character (ETags, the       *)
(* Authorization header) are sequences of one-character strings.  A hash   *)
(* is the tagged canonical form it was computed over, so two hashes are    *)
(* equal exactly when their canonical inputs are.  An envelope records the *)
(* passphrase and HKDF info its key was derived from, so that decrypting   *)
(* with another key fails as AES-GCM tag verification does.                *)
(***************************************************************************)
EXTENDS Integers, Sequences, FiniteSets, TLC

(***************************************************************************)
(* Bounds of the model.                                                    *)
(***************************************************************************)
NumCallers == 2
MaxCalls == 3
MaxClock == 1

Callers == 1..NumCallers

(***************************************************************************)
(* JSON values of the memory document.  A blocks object is a function from *)
(* top-level keys to a value or ABSENT; "extra" is a key outside the four  *)
(* reserved ones.                                                          *)
(***************************************************************************)
ABSENT == "<absent>"
EMPTY_OBJECT == "{}"
JsonVals == {EMPTY_OBJECT, "A", "B"}
ReservedKeys == {"identity", "methodology", "projects", "rules"}
BlockKeys == ReservedKeys \cup {"extra"}

QUOTE == "\""
DigitChars == <<"0", "1", "2", "3", "4", "5", "6", "7", "8", "9">>

IsDigit(c) == \E i \in 1..10 : DigitChars[i] = c

DigitValue(c) == (CHOOSE i \in 1..10 : DigitChars[i] = c) - 1

RECURSIVE DecimalString(_)
DecimalString(n) ==
    IF n < 10 THEN <<DigitChars[n + 1]>>
    ELSE DecimalString(n \div 10) \o <<DigitChars[(n % 10) + 1]>>

RECURSIVE ParseDecimal(_)
ParseDecimal(s) ==
    IF Len(s) = 0 THEN 0
    ELSE 10 * ParseDecimal(SubSeq(s, 1, Len(s) - 1)) + DigitValue(s[Len(s)])

(* The white space a header value can hold: what trim() strips and what   *)
(* \s matches.                                                            *)
WhiteSpace == {" ", "\t"}

RECURSIVE TrimLeft(_)
TrimLeft(s) ==
    IF Len(s) > 0 /\ s[1] \in WhiteSpace THEN TrimLeft(Tail(s)) ELSE s

RECURSIVE TrimRight(_)
TrimRight(s) ==
    IF Len(s) > 0 /\ s[Len(s)] \in WhiteSpace
    THEN TrimRight(SubSeq(s, 1, Len(s) - 1)) ELSE s

Trim(s) == TrimRight(TrimLeft(s))

(***************************************************************************)
(* storage.ts: parseIfMatch returns the number of "v<digits>" (in double   *)
(* quotes, after trimming) and null otherwise; NULL stands for null.       *)
(***************************************************************************)
NULL == -1

parseIfMatch(ifMatch) ==
    LET t == Trim(ifMatch)
        n == Len(t)
    IN  IF /\ n >= 4
           /\ t[1] = QUOTE
           /\ t[2] = "v"
           /\ t[n] = QUOTE
           /\ \A i \in 3..(n - 1) : IsDigit(t[i])
        THEN ParseDecimal(SubSeq(t, 3, n - 1))
        ELSE NULL

etagForVersion(version) == <<QUOTE, "v">> \o DecimalString(version) \o <<QUOTE>>

(* A faulty variant of emptyMemory: the initial memory is at version 1.    *)
emptyMemoryVersionOne(t) ==
    [version |-> 1,
     blocks |-> [k \in BlockKeys |-> IF k \in ReservedKeys THEN EMPTY_OBJECT ELSE ABSENT],
     updated_at |-> t]

emptyMemory(t) ==
    [version |-> 0,
     blocks |-> [k \in BlockKeys |-> IF k \in ReservedKeys THEN EMPTY_OBJECT ELSE ABSENT],
     updated_at |-> t]

(***************************************************************************)
(* errors.ts: the error classes with their status codes; ConflictError     *)
(* carries the current ETag as a header and in its details.                *)
(***************************************************************************)
SchemaValidationError(message) ==
    [kind |-> "SchemaValidationError", statusCode |-> 400, message |-> message]

(* A faulty variant of ConflictError: the ETag header loses its quotes. *)
ConflictErrorUnquotedHeader(currentETag) ==
    [kind |-> "ConflictError", statusCode |-> 409, message |-> "Version conflict",
     details |-> [current_etag |-> currentETag],
     headers |-> [ETag |-> SubSeq(currentETag, 2, Len(currentETag) - 1)]]

ConflictError(currentETag) ==
    [kind |-> "ConflictError", statusCode |-> 409, message |-> "Version conflict",
     details |-> [current_etag |-> currentETag],
     headers |-> [ETag |-> currentETag]]

PatchApplyError(message) ==
    [kind |-> "PatchApplyError", statusCode |-> 422, message |-> message]

StorageCorruptionError(message) ==
    [kind |-> "StorageCorruptionError", statusCode |-> 500, message |-> message]

UnauthorizedError(message) ==
    [kind |-> "UnauthorizedError", statusCode |-> 401, message |-> message]

(***************************************************************************)
(* server.ts: the error handler.  An HttpError's headers become response   *)
(* headers and its body is the message together with the members of        *)
(* details; any other error is a 500 with a fixed message.                 *)
(***************************************************************************)
NoMembers == [k \in {} |-> ""]

HttpErrors ==
    {"SchemaValidationError", "ConflictError", "PatchApplyError",
     "StorageCorruptionError", "UnauthorizedError"}

errorHandler(error) ==
    LET details == IF "details" \in DOMAIN error THEN error.details ELSE NoMembers
    IN  IF error.kind \in HttpErrors
        THEN [status |-> error.statusCode,
              headers |-> IF "headers" \in DOMAIN error THEN error.headers ELSE NoMembers,
              body |-> [k \in {"error"} \cup DOMAIN details |->
                           IF k = "error" THEN error.message ELSE details[k]]]
        ELSE [status |-> 500, headers |-> NoMembers,
              body |-> [error |-> "Internal server error"]]

(***************************************************************************)
(* schema.ts: jsonPatchSchema.  An operation is a record whose optional    *)
(* members (from, value) are absent from its domain when not given.        *)
(***************************************************************************)
PatchOps == {"add", "remove", "replace", "move", "copy", "test"}

jsonPatchOperationSchema(item) ==
    /\ {"op", "path"} \subseteq DOMAIN item
    /\ item.op \in PatchOps
    /\ item.path # ""
    /\ ("from" \in DOMAIN item => item.from # "")
    /\ (item.op \in {"move", "copy"} => "from" \in DOMAIN item)
    /\ (item.op \in {"add", "replace", "test"} => "value" \in DOMAIN item)

jsonPatchSchema(patch) == \A i \in 1..Len(patch) : jsonPatchOperationSchema(patch[i])

(***************************************************************************)
(* schema.ts: blocksSchema declares the four reserved keys as z.unknown()  *)
(* under passthrough: an unknown member accepts every value, the undefined *)
(* of a missing key included, so every object parses.                      *)
(***************************************************************************)
blocksSchema(blocks) ==
    \A k \in ReservedKeys : blocks[k] \in JsonVals \cup {ABSENT}

memorySchema(memory) ==
    /\ memory.version >= 0
    /\ blocksSchema(memory.blocks)

(***************************************************************************)
(* schema.ts: ledgerEntrySchema, applied to every decoded journal line:    *)
(* cursor positive, versions non-negative, actor and reason non-empty.     *)
(***************************************************************************)
ledgerEntrySchema(entry) ==
    /\ entry.cursor > 0
    /\ entry.actor # ""
    /\ entry.base_version >= 0
    /\ entry.new_version >= 0
    /\ entry.reason # ""
    /\ ("auth" \in DOMAIN entry => entry.auth \in {"none", "token"})
    /\ jsonPatchSchema(entry.patch)

(***************************************************************************)
(* fast-json-patch applyPatch(document, patch, validate = true) on paths   *)
(* of one segment: an operation fails on an unresolvable path or from, or  *)
(* on a failing test; the patch fails as soon as one operation does.       *)
(***************************************************************************)
PathKey(path) ==
    CASE path = "/identity" -> "identity"
      [] path = "/methodology" -> "methodology"
      [] path = "/projects" -> "projects"
      [] path = "/rules" -> "rules"
      [] path = "/extra" -> "extra"
      [] OTHER -> "<none>"

applyOperation(doc, op) ==
    LET k == PathKey(op.path)
        f == IF "from" \in DOMAIN op THEN PathKey(op.from) ELSE "<none>"
        fail == [ok |-> FALSE, doc |-> doc]
    IN  IF k \notin BlockKeys THEN fail
        ELSE CASE op.op = "add" -> [ok |-> TRUE, doc |-> [doc EXCEPT ![k] = op.value]]
               [] op.op = "remove" ->
                    IF doc[k] = ABSENT THEN fail
                    ELSE [ok |-> TRUE, doc |-> [doc EXCEPT ![k] = ABSENT]]
               [] op.op = "replace" ->
                    IF doc[k] = ABSENT THEN fail
                    ELSE [ok |-> TRUE, doc |-> [doc EXCEPT ![k] = op.value]]
               [] op.op = "test" ->
                    IF doc[k] = ABSENT \/ doc[k] # op.value THEN fail
                    ELSE [ok |-> TRUE, doc |-> doc]
               [] op.op = "move" ->
                    IF f \notin BlockKeys \/ doc[f] = ABSENT THEN fail
                    ELSE [ok |-> TRUE,
                          doc |-> [[doc EXCEPT ![f] = ABSENT] EXCEPT ![k] = doc[f]]]
               [] op.op = "copy" ->
                    IF f \notin BlockKeys \/ doc[f] = ABSENT THEN fail
                    ELSE [ok |-> TRUE, doc |-> [doc EXCEPT ![k] = doc[f]]]
               [] OTHER -> fail

RECURSIVE applyPatch(_, _)
applyPatch(doc, patch) ==
    IF Len(patch) = 0 THEN [ok |-> TRUE, doc |-> doc]
    ELSE LET r == applyOperation(doc, Head(patch))
         IN  IF r.ok THEN applyPatch(r.doc, Tail(patch)) ELSE r

(***************************************************************************)
(* canonical.ts: canonicalJson serialises an object with its keys sorted   *)
(* (here: the members present, as key/value pairs in code-unit order of    *)
(* the keys); sha256Hex is injective on the model's values, so a hash is   *)
(* the tagged canonical form.  The empty string is the empty sequence.     *)
(***************************************************************************)
CanonicalKeyOrder ==
    <<"actor", "auth", "base_version", "cursor", "new_version", "patch",
      "prev_hash", "reason", "ts">>

canonicalJson(value) ==
    LET keys == SelectSeq(CanonicalKeyOrder, LAMBDA k : k \in DOMAIN value)
    IN  [i \in 1..Len(keys) |-> <<keys[i], value[keys[i]]>>]

sha256Hex(text) == <<"sha256", text>>

computeEntryHash(entry) == sha256Hex(canonicalJson(entry))

EMPTY_HASH == <<>>

(***************************************************************************)
(* crypto.ts: the envelope codec.  `sealed` stands for the AES-GCM output  *)
(* (ciphertext_b64 and tag_b64): the payload together with the passphrase, *)
(* salt and HKDF info the key was derived from and the IV and AAD bytes    *)
(* the cipher was fed with; `flipped` names the parts of that output whose *)
(* bytes are no longer the ones the cipher produced (none when written).   *)
(* salt and iv are the random bytes of the envelope (every envelope is     *)
(* written with the value 0 here; other values are bytes changed later).   *)
(* decryptEnvelope rejects an envelope whose hkdf.info is not the expected *)
(* one, and fails when the key derived from its arguments and the salt,    *)
(* the IV, the AAD or the cipher output is not what was sealed.            *)
(***************************************************************************)
UID == "lmv-v1"
SCHEMA_VERSION == 1

encryptEnvelope(payload, passphrase, info, aadContext) ==
    [v |-> 1,
     salt |-> 0,
     hkdf_info |-> info,
     iv |-> 0,
     aad |-> aadContext,
     flipped |-> {},
     sealed |-> [passphrase |-> passphrase, salt |-> 0, info |-> info, iv |-> 0,
                 aad |-> aadContext, payload |-> payload]]

(* A faulty variant of decryptEnvelope: the salt is not used for the key. *)
decryptEnvelopeIgnoresSalt(envelope, passphrase, expectedInfo) ==
    IF envelope.hkdf_info # expectedInfo
    THEN [ok |-> FALSE, error |-> StorageCorruptionError("Envelope hkdf.info mismatch")]
    ELSE IF \/ envelope.sealed.passphrase # passphrase
            \/ envelope.sealed.info # envelope.hkdf_info
            \/ envelope.sealed.iv # envelope.iv
            \/ envelope.sealed.aad # envelope.aad
            \/ envelope.flipped # {}
         THEN [ok |-> FALSE, error |-> StorageCorruptionError("Failed to decrypt envelope")]
         ELSE [ok |-> TRUE, payload |-> envelope.sealed.payload, aad |-> envelope.aad]

(* schema.ts: envelopeSchema.  A JSON value that is not an envelope (a      *)
(* member missing or of another type) is an envelope whose v is not 1.     *)
envelopeSchema(envelope) == envelope.v = 1

(* A faulty variant of decryptEnvelope: hkdf.info is not compared with the *)
(* expected one.                                                           *)
decryptEnvelopeAnyInfo(envelope, passphrase, expectedInfo) ==
    IF \/ envelope.sealed.passphrase # passphrase
       \/ envelope.sealed.salt # envelope.salt
       \/ envelope.sealed.info # envelope.hkdf_info
       \/ envelope.sealed.iv # envelope.iv
       \/ envelope.sealed.aad # envelope.aad
       \/ envelope.flipped # {}
    THEN [ok |-> FALSE, error |-> StorageCorruptionError("Failed to decrypt envelope")]
    ELSE [ok |-> TRUE, payload |-> envelope.sealed.payload, aad |-> envelope.aad]

decryptEnvelope(envelope, passphrase, expectedInfo) ==
    IF ~envelopeSchema(envelope)
    THEN [ok |-> FALSE, error |-> SchemaValidationError("Invalid envelope format")]
    ELSE IF envelope.hkdf_info # expectedInfo
    THEN [ok |-> FALSE, error |-> StorageCorruptionError("Envelope hkdf.info mismatch")]
    ELSE IF \/ envelope.sealed.passphrase # passphrase
            \/ envelope.sealed.salt # envelope.salt
            \/ envelope.sealed.info # envelope.hkdf_info
            \/ envelope.sealed.iv # envelope.iv
            \/ envelope.sealed.aad # envelope.aad
            \/ envelope.flipped # {}
         THEN [ok |-> FALSE, error |-> StorageCorruptionError("Failed to decrypt envelope")]
         ELSE [ok |-> TRUE, payload |-> envelope.sealed.payload, aad |-> envelope.aad]

(***************************************************************************)
(* storage.ts: the AAD contexts, as the key/value pairs JSON.stringify     *)
(* emits in insertion order.                                               *)
(***************************************************************************)
vaultAAD(snapshot) ==
    <<<<"record_type", "vault">>, <<"uid", snapshot.uid>>,
      <<"schema_version", snapshot.schema_version>>,
      <<"vault_version", snapshot.memory.version>>>>

ledgerAAD(entry) ==
    <<<<"record_type", "ledger_entry">>, <<"uid", UID>>,
      <<"schema_version", SCHEMA_VERSION>>, <<"entry_cursor", entry.cursor>>>>

(***************************************************************************)
(* The file system: a function from <<directory, file name>> to a file.    *)
(* "data" is the data directory, "stage" the rotation's staging directory  *)
(* and <<"bak", f>> the backup data/<f>.bak.<runId>.                       *)
(***************************************************************************)
VAULT == "vault.enc"
LEDGER == "ledger.jsonl.enc"
META == "meta.json"
Files == <<VAULT, LEDGER, META>>
FileNames == {VAULT, LEDGER, META}
Dirs == {"data", "stage", "bak"}
Paths == Dirs \X FileNames

NoFile == [exists |-> FALSE]
File(data) == [exists |-> TRUE, data |-> data]

defaultMeta(t) == [schema_version |-> 1, envelope_version |-> 1, updated_at |-> t]

vaultSnapshotSchema(snapshot) ==
    /\ snapshot.uid # ""
    /\ snapshot.schema_version > 0
    /\ memorySchema(snapshot.memory)
    /\ snapshot.snapshot_cursor >= 0

(***************************************************************************)
(* storage.ts: writeVault, the file written for a snapshot.                *)
(***************************************************************************)
writeVault(snapshot, passphrase) ==
    File(encryptEnvelope(snapshot, passphrase, "vault", vaultAAD(snapshot)))

(***************************************************************************)
(* storage.ts: ensureDataFiles creates each of the three files that is     *)
(* absent: an empty-memory snapshot, an empty journal, default metadata.   *)
(***************************************************************************)
(* A faulty variant of ensureDataFiles: meta.json is written on every    *)
(* run.                                                                  *)
ensureDataFilesRewritesMeta(files, dir, passphrase, t) ==
    [p \in Paths |->
        IF p[1] = dir /\ p[2] = META THEN File(defaultMeta(t))
        ELSE IF p[1] = dir /\ ~files[p].exists
        THEN CASE p[2] = VAULT ->
                    writeVault([uid |-> UID, schema_version |-> SCHEMA_VERSION,
                                memory |-> emptyMemory(t), snapshot_cursor |-> 0,
                                updated_at |-> t], passphrase)
               [] OTHER -> File(<<>>)
        ELSE files[p]]

ensureDataFiles(files, dir, passphrase, t) ==
    [p \in Paths |->
        IF p[1] = dir /\ ~files[p].exists
        THEN CASE p[2] = VAULT ->
                    writeVault([uid |-> UID, schema_version |-> SCHEMA_VERSION,
                                memory |-> emptyMemory(t), snapshot_cursor |-> 0,
                                updated_at |-> t], passphrase)
               [] p[2] = LEDGER -> File(<<>>)
               [] OTHER -> File(defaultMeta(t))
        ELSE files[p]]

(***************************************************************************)
(* storage.ts: readVault parses vault.enc (Truncated is the text of a file *)
(* opened for writing and not written yet, which JSON.parse rejects),      *)
(* decrypts it, validates the payload and compares the AAD derived from it *)
(* with the AAD of the envelope.                                           *)
(***************************************************************************)
Truncated == [truncated |-> TRUE]

IsTruncated(data) == "truncated" \in DOMAIN data

readVault(files, dir, passphrase) ==
    IF IsTruncated(files[<<dir, VAULT>>].data)
    THEN [ok |-> FALSE, error |-> StorageCorruptionError("vault.enc is not valid JSON")]
    ELSE
    LET decrypted == decryptEnvelope(files[<<dir, VAULT>>].data, passphrase, "vault")
    IN  IF ~decrypted.ok THEN decrypted
        ELSE IF ~vaultSnapshotSchema(decrypted.payload)
        THEN [ok |-> FALSE, error |-> StorageCorruptionError("Vault payload schema mismatch")]
        ELSE IF vaultAAD(decrypted.payload) # decrypted.aad
        THEN [ok |-> FALSE, error |-> StorageCorruptionError("Vault AAD context mismatch")]
        ELSE [ok |-> TRUE, snapshot |-> decrypted.payload]

(***************************************************************************)
(* storage.ts: readLedgerEntries, first loop.  A line of the journal is an *)
(* envelope, or text that JSON.parse rejects (Torn: what a cut-off write   *)
(* leaves; lf says whether a line feed follows it).  A line decodes when   *)
(* it parses, its envelope decrypts, its payload passes ledgerEntrySchema  *)
(* and its AAD matches.                                                    *)
(***************************************************************************)
Torn(lf) == [torn |-> TRUE, lf |-> lf]

IsTorn(line) == "torn" \in DOMAIN line

decodeLine(line, passphrase) ==
    IF IsTorn(line)
    THEN [ok |-> FALSE,
          error |-> StorageCorruptionError("Failed to parse/decrypt ledger entry")]
    ELSE
    LET decrypted == decryptEnvelope(line, passphrase, "ledger")
    IN  IF ~decrypted.ok
        THEN IF decrypted.error.kind = "StorageCorruptionError" THEN decrypted
             ELSE [ok |-> FALSE,
                   error |-> StorageCorruptionError("Failed to parse/decrypt ledger entry")]
        ELSE IF ~ledgerEntrySchema(decrypted.payload)
        THEN [ok |-> FALSE, error |-> StorageCorruptionError("Ledger entry schema mismatch")]
        ELSE IF ledgerAAD(decrypted.payload) # decrypted.aad
        THEN [ok |-> FALSE, error |-> StorageCorruptionError("Ledger AAD context mismatch")]
        ELSE [ok |-> TRUE, entry |-> decrypted.payload]

(***************************************************************************)
(* The hash input rebuilt at read time: the entry without entry_hash, with *)
(* auth only when the entry has a truthy one.                              *)
(***************************************************************************)
hashInput(entry) ==
    LET keys == {"cursor", "ts", "actor", "base_version", "new_version", "reason",
                 "patch", "prev_hash"}
                \cup (IF "auth" \in DOMAIN entry /\ entry.auth # "" THEN {"auth"} ELSE {})
    IN  [k \in keys |-> entry[k]]

(***************************************************************************)
(* readLedgerEntries, second loop: cursors contiguous from 1, prev_hash    *)
(* chained, entry_hash equal to the recomputed hash.                       *)
(***************************************************************************)
(* A faulty variant of the second loop: only the cursors are checked. *)
chainErrorIgnoresHashes(entries) ==
    IF \E i \in 1..Len(entries) : entries[i].cursor # i
    THEN "Ledger cursor is not contiguous"
    ELSE ""

chainError(entries) ==
    IF \E i \in 1..Len(entries) : entries[i].cursor # i
    THEN "Ledger cursor is not contiguous"
    ELSE IF \E i \in 1..Len(entries) :
                entries[i].prev_hash #
                    (IF i = 1 THEN EMPTY_HASH ELSE entries[i - 1].entry_hash)
    THEN "Ledger hash chain broken at prev_hash"
    ELSE IF \E i \in 1..Len(entries) :
                computeEntryHash(hashInput(entries[i])) # entries[i].entry_hash
    THEN "Ledger hash chain broken at entry_hash"
    ELSE ""

(* A faulty variant of readLedgerEntries: every broken line is skipped. *)
readLedgerEntriesSkipsBroken(files, dir, passphrase) ==
    LET lines == files[<<dir, LEDGER>>].data
        good == SelectSeq(lines, LAMBDA line : decodeLine(line, passphrase).ok)
        entries == [i \in 1..Len(good) |-> decodeLine(good[i], passphrase).entry]
    IN  IF chainError(entries) # ""
        THEN [ok |-> FALSE, error |-> StorageCorruptionError(chainError(entries))]
        ELSE [ok |-> TRUE, entries |-> entries]

(***************************************************************************)
(* readLedgerEntries: a line that fails to decode is an error unless it is *)
(* the last line, which is dropped.                                        *)
(***************************************************************************)
readLedgerEntries(files, dir, passphrase) ==
    LET lines == files[<<dir, LEDGER>>].data
        n == Len(lines)
        decoded == [i \in 1..n |-> decodeLine(lines[i], passphrase)]
        bad == {i \in 1..n : ~decoded[i].ok}
        kept == IF n \in bad THEN n - 1 ELSE n
        entries == [i \in 1..kept |-> decoded[i].entry]
    IN  IF \E i \in bad : i # n
        THEN [ok |-> FALSE, error |-> decoded[CHOOSE i \in bad : \A j \in bad : i <= j].error]
        ELSE IF chainError(entries) # ""
        THEN [ok |-> FALSE, error |-> StorageCorruptionError(chainError(entries))]
        ELSE [ok |-> TRUE, entries |-> entries]

(***************************************************************************)
(* storage.ts: replayLedger applies the entries beyond snapshot_cursor to  *)
(* the snapshot's memory, requiring each base_version to be the version    *)
(* reached.                                                                *)
(***************************************************************************)
RECURSIVE replayFrom(_, _, _, _)
replayFrom(memory, entries, i, snapshotCursor) ==
    IF i > Len(entries) THEN [ok |-> TRUE, memory |-> memory]
    ELSE LET entry == entries[i]
         IN  IF entry.cursor <= snapshotCursor
             THEN replayFrom(memory, entries, i + 1, snapshotCursor)
             ELSE IF entry.base_version # memory.version
             THEN [ok |-> FALSE,
                   error |-> StorageCorruptionError("Ledger base_version mismatch")]
             ELSE LET result == applyPatch(memory.blocks, entry.patch)
                      next == [version |-> entry.new_version,
                               blocks |-> result.doc,
                               updated_at |-> entry.ts]
                  IN  IF ~result.ok
                      THEN [ok |-> FALSE, error |-> [kind |-> "JsonPatchError",
                                statusCode |-> 500, message |-> "patch failed in replay"]]
                      ELSE IF ~memorySchema(next)
                      THEN [ok |-> FALSE, error |->
                                StorageCorruptionError("Memory invalid after ledger replay")]
                      ELSE replayFrom(next, entries, i + 1, snapshotCursor)

replayLedger(snapshot, entries) ==
    IF snapshot.snapshot_cursor > Len(entries)
    THEN [ok |-> FALSE, error |-> StorageCorruptionError("snapshot_cursor is ahead of ledger")]
    ELSE LET r == replayFrom(snapshot.memory, entries, 1, snapshot.snapshot_cursor)
         IN  IF ~r.ok THEN r
             ELSE [ok |-> TRUE,
                   state |-> [memory |-> r.memory,
                              snapshot_cursor |-> snapshot.snapshot_cursor,
                              ledger_cursor |-> Len(entries)]]

(***************************************************************************)
(* storage.ts: getCurrentState on the files of a directory: ensure the     *)
(* files, read the snapshot, read the journal, replay.                     *)
(***************************************************************************)
getCurrentState(files, dir, passphrase, t) ==
    LET ensured == ensureDataFiles(files, dir, passphrase, t)
        vault == readVault(ensured, dir, passphrase)
        ledger == readLedgerEntries(ensured, dir, passphrase)
    IN  IF ~vault.ok THEN vault
        ELSE IF ~ledger.ok THEN ledger
        ELSE replayLedger(vault.snapshot, ledger.entries)

(* scripts/verify_ledger.ts: initialize, verifyLedger, getCurrentState; the *)
(* script reports the entry count when neither throws.                     *)
verifyLedgerMain(files, dir, passphrase, t) ==
    LET ensured == ensureDataFiles(files, dir, passphrase, t)
        ledger == readLedgerEntries(ensured, dir, passphrase)
        state == getCurrentState(ensured, dir, passphrase, t)
    IN  IF ~ledger.ok THEN ledger
        ELSE IF ~state.ok THEN state
        ELSE [ok |-> TRUE, entries |-> Len(ledger.entries),
              ledger_cursor |-> Len(ledger.entries)]

verifyLedger(files, dir, passphrase, t) ==
    LET ledger == readLedgerEntries(ensureDataFiles(files, dir, passphrase, t), dir, passphrase)
    IN  IF ~ledger.ok THEN ledger
        ELSE [ok |-> TRUE, entries |-> Len(ledger.entries),
              ledger_cursor |-> Len(ledger.entries)]

(***************************************************************************)
(* storage.ts: getLedger, a page of the journal after cursor `since`.      *)
(***************************************************************************)
Max(a, b) == IF a >= b THEN a ELSE b
Min(a, b) == IF a <= b THEN a ELSE b

(* A faulty variant of ledgerPage: the limit has no upper bound. *)
ledgerPageUncapped(snapshot, entries, since, limit) ==
    LET normalizedSince == Max(0, since)
        normalizedLimit == Max(1, limit)
        filtered == SelectSeq(entries, LAMBDA entry : entry.cursor > normalizedSince)
        page == SubSeq(filtered, 1, Min(Len(filtered), normalizedLimit))
    IN  [ok |-> TRUE,
         entries |-> page,
         next_cursor |-> IF Len(page) > 0 THEN page[Len(page)].cursor ELSE normalizedSince,
         has_more |-> Len(filtered) > Len(page),
         snapshot_cursor |-> snapshot.snapshot_cursor,
         ledger_cursor |-> Len(entries)]

(* getLedger after its reads: the page of the entries read. *)
ledgerPage(snapshot, entries, since, limit) ==
    LET normalizedSince == Max(0, since)
        normalizedLimit == Max(1, Min(limit, 500))
        filtered == SelectSeq(entries, LAMBDA entry : entry.cursor > normalizedSince)
        page == SubSeq(filtered, 1, Min(Len(filtered), normalizedLimit))
    IN  [ok |-> TRUE,
         entries |-> page,
         next_cursor |-> IF Len(page) > 0 THEN page[Len(page)].cursor ELSE normalizedSince,
         has_more |-> Len(filtered) > Len(page),
         snapshot_cursor |-> snapshot.snapshot_cursor,
         ledger_cursor |-> Len(entries)]

getLedger(files, dir, passphrase, since, limit, t) ==
    LET ensured == ensureDataFiles(files, dir, passphrase, t)
        vault == readVault(ensured, dir, passphrase)
        ledger == readLedgerEntries(ensured, dir, passphrase)
    IN  IF ~vault.ok THEN vault
        ELSE IF ~ledger.ok THEN ledger
        ELSE ledgerPage(vault.snapshot, ledger.entries, since, limit)

(***************************************************************************)
(* storage.ts: assertPatchAllowed and appendLedgerEntry.                   *)
(***************************************************************************)
assertPatchAllowed(patch) ==
    \A i \in 1..Len(patch) : patch[i].path \notin {"/version", "/updated_at"}

(***************************************************************************)
(* storage.ts: appendLedgerEntry opens the journal for append and writes   *)
(* the envelope and a line feed.  After text that has no line feed the     *)
(* bytes continue that line, which then parses no more.                    *)
(***************************************************************************)
(* A faulty variant of appendLedgerEntry: the journal file is written   *)
(* anew with the entry as its only line.                                *)
appendLedgerEntryTruncates(files, dir, passphrase, entry) ==
    [files EXCEPT ![<<dir, LEDGER>>] =
        File(<<encryptEnvelope(entry, passphrase, "ledger", ledgerAAD(entry))>>)]

appendLedgerEntry(files, dir, passphrase, entry) ==
    LET lines == files[<<dir, LEDGER>>].data
        envelope == encryptEnvelope(entry, passphrase, "ledger", ledgerAAD(entry))
    IN  [files EXCEPT ![<<dir, LEDGER>>] =
            IF Len(lines) > 0 /\ IsTorn(lines[Len(lines)]) /\ ~lines[Len(lines)].lf
            THEN File(SubSeq(lines, 1, Len(lines) - 1) \o <<Torn(TRUE)>>)
            ELSE File(lines \o <<envelope>>)]

(***************************************************************************)
(* The journal file as written: the entry appendLedgerEntry sealed in each *)
(* line, whatever a later read makes of it.                                *)
(***************************************************************************)
ledgerLines(files, dir) ==
    [i \in 1..Len(files[<<dir, LEDGER>>].data) |->
        IF IsTorn(files[<<dir, LEDGER>>].data[i]) THEN Torn(TRUE)
        ELSE files[<<dir, LEDGER>>].data[i].sealed.payload]

(***************************************************************************)
(* The running engine: one LMVStorage on the data directory, opened with   *)
(* the passphrase "old", called by NumCallers concurrent callers.          *)
(*                                                                         *)
(*   fs        the files                                                   *)
(*   now       the clock nowIso() reads                                    *)
(*   authMode  the auth marker the request surface passes to patchMemory   *)
(*   lock      the promise held in this.lock (promises are numbered; the   *)
(*             initial Promise.resolve() is 0); resolved: the settled ones *)
(*   pc        where each caller's pending call stands                     *)
(*   local     the call's input and the values it has read so far          *)
(*   ret       the call that has just returned or thrown, with its outcome *)
(*             (NoReturn once the caller has taken it)                     *)
(*   calls     withLock calls so far (the promises created)                *)
(*   acked     patchMemory calls that returned successfully so far         *)
(*   race      the calls issued concurrently on the current version        *)
(*   rot       the rotation script's state                                 *)
(*   gate      the last request the write gate decided                     *)
(*   env       what happened to the files and the process from outside     *)
(***************************************************************************)
VARIABLES fs, now, authMode, lock, resolved, pc, local, ret, calls, acked, race, rot, gate,
          env

vars == <<fs, now, authMode, lock, resolved, pc, local, ret, calls, acked, race, rot, gate,
          env>>

DATA == "data"
OldPass == "old"
NewPass == "new"

(***************************************************************************)
(* The inputs callers draw from.                                           *)
(***************************************************************************)
AddIdentity == <<[op |-> "add", path |-> "/identity", value |-> "A"]>>
AddThenTestExtra ==
    <<[op |-> "add", path |-> "/extra", value |-> "B"],
      [op |-> "test", path |-> "/extra", value |-> "B"]>>
RemoveExtra == <<[op |-> "remove", path |-> "/extra"]>>
AddVersion == <<[op |-> "add", path |-> "/version", value |-> "A"]>>
MoveWithoutFrom == <<[op |-> "move", path |-> "/projects"]>>

PatchInputs == {AddThenTestExtra, RemoveExtra, AddVersion, MoveWithoutFrom}
IfMatchInputs == {etagForVersion(n) : n \in 0..(MaxCalls - 1)} \cup {<<"v", "0">>}
Actors == {"", "agent"}
Reasons == {"why"}
Auths == {"none", "token"}

NoLocal == [op |-> "none"]
NoReturn == [caller |-> 0, op |-> "none"]
NoRace == [members |-> {}, version |-> 0, open |-> FALSE,
           outcome |-> [c \in Callers |-> "none"]]

Thrown(error) == [ok |-> FALSE, error |-> error]

(***************************************************************************)
(* A patchMemory call joins the race when its If-Match is the current      *)
(* version and its patch applies to the current blocks; the race starts    *)
(* when no patch call is pending and takes further such calls until one of *)
(* its members returns.                                                    *)
(***************************************************************************)
Eligible(current, baseVersion, patch) ==
    /\ current.ok
    /\ baseVersion = current.state.memory.version
    /\ applyPatch(current.state.memory.blocks, patch).ok

PatchPending(c) == pc[c] # "idle" /\ local[c].op = "patch"

RaceAtCall(c, current, baseVersion, patch) ==
    IF ~Eligible(current, baseVersion, patch) THEN race
    ELSE IF \A d \in Callers : ~PatchPending(d)
    THEN [members |-> {c}, version |-> baseVersion, open |-> TRUE,
          outcome |-> [d \in Callers |-> IF d = c THEN "pending" ELSE "none"]]
    ELSE IF race.open /\ race.version = baseVersion /\ c \notin race.members
    THEN [race EXCEPT !.members = @ \cup {c}, !.outcome[c] = "pending"]
    ELSE race

RaceAtReturn(c, res) ==
    IF c \in race.members /\ race.outcome[c] = "pending" /\ local[c].op = "patch"
    THEN [race EXCEPT !.open = FALSE,
                      !.outcome[c] = IF res.ok THEN "ok" ELSE res.error.kind]
    ELSE race

(***************************************************************************)
(* storage.ts: withLock.  The caller takes the promise in this.lock as its *)
(* prior, stores a new promise there, and runs fn once prior has settled;  *)
(* release settles its own promise when fn returns or throws.              *)
(***************************************************************************)
withLockPrior == lock

(* A faulty variant of withLock: fn runs without awaiting prior.           *)
withLockAwaitsNothing(c) == TRUE

withLockMayRun(c) == local[c].prior \in resolved

(* A faulty variant of withLock: release is not called when fn ends.      *)
withLockReleasesNothing(c) == resolved

withLockRelease(c) == resolved \cup {local[c].mine}

(***************************************************************************)
(* patchMemory up to the first await: the patch schema, the reserved       *)
(* paths and the If-Match format are checked before withLock is called.    *)
(***************************************************************************)
patchMemoryRejects(ifMatchHeader, patch) ==
    IF ~jsonPatchSchema(patch)
    THEN SchemaValidationError("Invalid JSON Patch schema")
    ELSE IF ~assertPatchAllowed(patch)
    THEN PatchApplyError("Patch cannot modify /version or /updated_at")
    ELSE IF parseIfMatch(ifMatchHeader) = NULL
    THEN SchemaValidationError("Invalid If-Match")
    ELSE [kind |-> "none"]

PatchCall(c) ==
    /\ pc[c] = "idle"
    /\ \E ifMatchHeader \in IfMatchInputs, patch \in PatchInputs :
       \E rejected \in {patchMemoryRejects(ifMatchHeader, patch)} :
          IF rejected.kind # "none"
          THEN /\ ret' = [caller |-> c, op |-> "patch", res |-> Thrown(rejected),
                          call |-> [op |-> "patch", patch |-> patch,
                                    ifMatchHeader |->
                                        IF rejected.message = "Invalid If-Match"
                                        THEN ifMatchHeader ELSE <<>>]]
               /\ UNCHANGED <<pc, lock, race, local, calls>>
          ELSE /\ calls < MaxCalls
               /\ \E actor \in Actors, reason \in Reasons :
                     local' = [local EXCEPT ![c] =
                                  [op |-> "patch", patch |-> patch, auth |-> authMode,
                                   baseVersion |-> parseIfMatch(ifMatchHeader),
                                   actor |-> actor, reason |-> reason,
                                   prior |-> withLockPrior, mine |-> calls + 1]]
               /\ lock' = calls + 1
               /\ pc' = [pc EXCEPT ![c] = "wait"]
               /\ \E current \in {getCurrentState(fs, DATA, OldPass, now)} :
                     race' = RaceAtCall(c, current, parseIfMatch(ifMatchHeader), patch)
               /\ calls' = calls + 1
               /\ ret' = NoReturn
    /\ UNCHANGED <<fs, now, authMode, resolved, acked, rot, gate, env>>

(***************************************************************************)
(* snapshot(): nothing is checked before withLock.                         *)
(***************************************************************************)
SnapshotCall(c) ==
    /\ pc[c] = "idle"
    /\ calls < MaxCalls
    /\ local' = [local EXCEPT ![c] =
                    [op |-> "snapshot", prior |-> withLockPrior, mine |-> calls + 1]]
    /\ lock' = calls + 1
    /\ pc' = [pc EXCEPT ![c] = "wait"]
    /\ calls' = calls + 1
    /\ ret' = NoReturn
    /\ UNCHANGED <<fs, now, authMode, resolved, acked, race, rot, gate, env>>

(***************************************************************************)
(* Without the values read and the lock's promises, a finished call keeps  *)
(* only its input.                                                         *)
(***************************************************************************)
Forget(l) == [k \in DOMAIN l \ {"snapshot", "entries", "prior", "mine"} |-> l[k]]

(***************************************************************************)
(* The end of a critical section: the call returns or throws, and the      *)
(* finally block of withLock releases.                                     *)
(***************************************************************************)
Return(c, res) ==
    /\ ret' = [caller |-> c, call |-> Forget(local[c]), op |-> local[c].op,
               res |-> res]
    /\ resolved' = withLockRelease(c)
    /\ pc' = [pc EXCEPT ![c] = "idle"]
    /\ local' = [local EXCEPT ![c] = NoLocal]
    /\ race' = RaceAtReturn(c, res)
    /\ acked' = IF res.ok /\ local[c].op = "patch" THEN acked + 1 ELSE acked

(***************************************************************************)
(* The critical section of patchMemory and snapshot, one step per file     *)
(* read: ensureDataFiles and readVault, then readLedgerEntries.            *)
(***************************************************************************)
ReadVaultStep(c) ==
    /\ pc[c] = "wait"
    /\ local[c].op \in {"patch", "snapshot"}
    /\ withLockMayRun(c)
    /\ \E ensured \in {ensureDataFiles(fs, DATA, OldPass, now)} :
       \E vault \in {readVault(ensured, DATA, OldPass)} :
           /\ fs' = ensured
           /\ IF vault.ok
              THEN /\ local' = [local EXCEPT ![c] =
                                   [k \in DOMAIN @ \cup {"snapshot"} |->
                                       IF k = "snapshot" THEN vault.snapshot ELSE @[k]]]
                   /\ pc' = [pc EXCEPT ![c] = "readLedger"]
                   /\ ret' = NoReturn
                   /\ UNCHANGED <<resolved, race, acked>>
              ELSE Return(c, Thrown(vault.error))
    /\ UNCHANGED <<now, authMode, lock, calls, rot, gate, env>>

ReadLedgerStep(c) ==
    /\ pc[c] = "readLedger"
    /\ \E ledger \in {readLedgerEntries(fs, DATA, OldPass)} :
           IF ledger.ok
           THEN /\ local' = [local EXCEPT ![c] =
                                [k \in DOMAIN @ \cup {"entries"} |->
                                    IF k = "entries" THEN ledger.entries ELSE @[k]]]
                /\ pc' = [pc EXCEPT ![c] = "commit"]
                /\ ret' = NoReturn
                /\ UNCHANGED <<resolved, race, acked>>
           ELSE Return(c, Thrown(ledger.error))
    /\ UNCHANGED <<fs, now, authMode, lock, calls, rot, gate, env>>

(***************************************************************************)
(* patchMemory, after the reads: replay, the version check, the patch      *)
(* applied to the current blocks, the blocks schema, the new entry built   *)
(* and appended, the new state returned.                                   *)
(***************************************************************************)
newEntry(entries, current, input, t) ==
    LET entryBase ==
            [cursor |-> Len(entries) + 1,
             ts |-> t,
             actor |-> input.actor,
             base_version |-> current.memory.version,
             new_version |-> current.memory.version + 1,
             reason |-> input.reason,
             auth |-> input.auth,
             patch |-> input.patch,
             prev_hash |-> IF Len(entries) > 0 THEN entries[Len(entries)].entry_hash
                           ELSE EMPTY_HASH]
    IN  [k \in DOMAIN entryBase \cup {"entry_hash"} |->
            IF k = "entry_hash" THEN computeEntryHash(entryBase) ELSE entryBase[k]]

(* A faulty variant of patchMemory: the entry is appended before the patch *)
(* is applied, so a patch that fails to apply is in the journal.           *)
patchMemoryAppendsFirst(files, dir, passphrase, snapshot, entries, input, t) ==
    LET replayed == replayLedger(snapshot, entries)
        current == replayed.state
        patched == applyPatch(current.memory.blocks, input.patch)
        entry == newEntry(entries, current, input, t)
    IN  IF ~replayed.ok THEN [files |-> files, res |-> Thrown(replayed.error)]
        ELSE IF input.baseVersion # current.memory.version
        THEN [files |-> files,
              res |-> Thrown(ConflictError(etagForVersion(current.memory.version)))]
        ELSE IF ~patched.ok
        THEN [files |-> appendLedgerEntry(files, dir, passphrase, entry),
              res |-> Thrown(PatchApplyError("Patch application failed"))]
        ELSE [files |-> appendLedgerEntry(files, dir, passphrase, entry),
              res |-> [ok |-> TRUE,
                       state |-> [memory |-> [version |-> entry.new_version,
                                              blocks |-> patched.doc,
                                              updated_at |-> entry.ts],
                                  snapshot_cursor |-> snapshot.snapshot_cursor,
                                  ledger_cursor |-> entry.cursor],
                       applied_entry_cursor |-> entry.cursor]]

(* A faulty variant of patchMemory: the patch is applied before the       *)
(* version is compared, so a stale patch that does not apply fails with   *)
(* PatchApplyError.                                                       *)
patchMemoryAppliesFirst(files, dir, passphrase, snapshot, entries, input, t) ==
    LET replayed == replayLedger(snapshot, entries)
        current == replayed.state
        patched == applyPatch(current.memory.blocks, input.patch)
        entry == newEntry(entries, current, input, t)
    IN  IF ~replayed.ok THEN [files |-> files, res |-> Thrown(replayed.error)]
        ELSE IF ~patched.ok
        THEN [files |-> files, res |-> Thrown(PatchApplyError("Patch application failed"))]
        ELSE IF input.baseVersion # current.memory.version
        THEN [files |-> files,
              res |-> Thrown(ConflictError(etagForVersion(current.memory.version)))]
        ELSE [files |-> appendLedgerEntry(files, dir, passphrase, entry),
              res |-> [ok |-> TRUE,
                       state |-> [memory |-> [version |-> entry.new_version,
                                              blocks |-> patched.doc,
                                              updated_at |-> entry.ts],
                                  snapshot_cursor |-> snapshot.snapshot_cursor,
                                  ledger_cursor |-> entry.cursor],
                       applied_entry_cursor |-> entry.cursor]]

patchMemory(files, dir, passphrase, snapshot, entries, input, t) ==
    LET replayed == replayLedger(snapshot, entries)
        current == replayed.state
        patched == applyPatch(current.memory.blocks, input.patch)
        entry == newEntry(entries, current, input, t)
    IN  IF ~replayed.ok THEN [files |-> files, res |-> Thrown(replayed.error)]
        ELSE IF input.baseVersion # current.memory.version
        THEN [files |-> files,
              res |-> Thrown(ConflictError(etagForVersion(current.memory.version)))]
        ELSE IF ~patched.ok
        THEN [files |-> files, res |-> Thrown(PatchApplyError("Patch application failed"))]
        ELSE IF ~blocksSchema(patched.doc)
        THEN [files |-> files,
              res |-> Thrown(PatchApplyError("Patch result violates blocks schema"))]
        ELSE [files |-> appendLedgerEntry(files, dir, passphrase, entry),
              res |-> [ok |-> TRUE,
                       state |-> [memory |-> [version |-> entry.new_version,
                                              blocks |-> patched.doc,
                                              updated_at |-> entry.ts],
                                  snapshot_cursor |-> snapshot.snapshot_cursor,
                                  ledger_cursor |-> entry.cursor],
                       applied_entry_cursor |-> entry.cursor]]

(***************************************************************************)
(* snapshot(), after the reads: replay; nothing to do when the journal is  *)
(* not ahead of the snapshot, else the current memory written as the       *)
(* snapshot at snapshot_cursor = ledger_cursor.                            *)
(***************************************************************************)
snapshotResult(cursor, current) ==
    [ok |-> TRUE, snapshot_cursor |-> cursor,
     ledger_cursor |-> current.ledger_cursor,
     memory_version |-> current.memory.version]

(* A faulty variant of snapshot(): the memory written is stamped with the *)
(* time of the compaction.                                                *)
takeSnapshotStampsMemory(files, dir, passphrase, snapshot, entries, t) ==
    LET replayed == replayLedger(snapshot, entries)
        current == replayed.state
        nextSnapshot == [uid |-> UID, schema_version |-> SCHEMA_VERSION,
                         memory |-> [current.memory EXCEPT !.updated_at = t],
                         snapshot_cursor |-> current.ledger_cursor,
                         updated_at |-> t]
    IN  IF ~replayed.ok THEN [files |-> files, res |-> Thrown(replayed.error)]
        ELSE IF current.ledger_cursor <= snapshot.snapshot_cursor
        THEN [files |-> files, res |-> snapshotResult(snapshot.snapshot_cursor, current)]
        ELSE [files |-> [files EXCEPT ![<<dir, VAULT>>] = writeVault(nextSnapshot, passphrase)],
              res |-> snapshotResult(nextSnapshot.snapshot_cursor, current)]

(* A faulty variant of snapshot(): the snapshot written keeps the cursor  *)
(* of the snapshot it replaces.                                           *)
takeSnapshotKeepsCursor(files, dir, passphrase, snapshot, entries, t) ==
    LET replayed == replayLedger(snapshot, entries)
        current == replayed.state
        nextSnapshot == [uid |-> UID, schema_version |-> SCHEMA_VERSION,
                         memory |-> current.memory,
                         snapshot_cursor |-> snapshot.snapshot_cursor,
                         updated_at |-> t]
    IN  IF ~replayed.ok THEN [files |-> files, res |-> Thrown(replayed.error)]
        ELSE IF current.ledger_cursor <= snapshot.snapshot_cursor
        THEN [files |-> files, res |-> snapshotResult(snapshot.snapshot_cursor, current)]
        ELSE [files |-> [files EXCEPT ![<<dir, VAULT>>] = writeVault(nextSnapshot, passphrase)],
              res |-> snapshotResult(current.ledger_cursor, current)]

takeSnapshot(files, dir, passphrase, snapshot, entries, t) ==
    LET replayed == replayLedger(snapshot, entries)
        current == replayed.state
        nextSnapshot == [uid |-> UID, schema_version |-> SCHEMA_VERSION,
                         memory |-> current.memory,
                         snapshot_cursor |-> current.ledger_cursor,
                         updated_at |-> t]
    IN  IF ~replayed.ok THEN [files |-> files, res |-> Thrown(replayed.error)]
        ELSE IF current.ledger_cursor <= snapshot.snapshot_cursor
        THEN [files |-> files, res |-> snapshotResult(snapshot.snapshot_cursor, current)]
        ELSE [files |-> [files EXCEPT ![<<dir, VAULT>>] = writeVault(nextSnapshot, passphrase)],
              res |-> snapshotResult(nextSnapshot.snapshot_cursor, current)]

CommitStep(c) ==
    /\ pc[c] = "commit"
    /\ \E done \in {IF local[c].op = "patch"
                     THEN patchMemory(fs, DATA, OldPass, local[c].snapshot,
                                      local[c].entries, local[c], now)
                     ELSE takeSnapshot(fs, DATA, OldPass, local[c].snapshot,
                                       local[c].entries, now)} :
           /\ fs' = done.files
           /\ Return(c, done.res)
    /\ UNCHANGED <<now, authMode, lock, calls, rot, gate, env>>

(***************************************************************************)
(* Time passes between any two steps.                                      *)
(***************************************************************************)
Tick ==
    /\ now < MaxClock
    /\ now' = now + 1
    /\ ret' = NoReturn
    /\ UNCHANGED <<fs, authMode, lock, resolved, pc, local, calls, acked, race, rot, gate, env>>

NoRotation == [pc |-> "off"]
NoGate == [decided |-> FALSE]
NoEnv == [kind |-> "none"]

(***************************************************************************)
(* The engine after initialize() on an empty data directory.               *)
(***************************************************************************)
Init ==
    /\ fs = ensureDataFiles([p \in Paths |-> NoFile], DATA, OldPass, 0)
    /\ now = 0
    /\ authMode \in Auths
    /\ lock = 0
    /\ resolved = {0}
    /\ pc = [c \in Callers |-> "idle"]
    /\ local = [c \in Callers |-> NoLocal]
    /\ ret = NoReturn
    /\ calls = 0
    /\ acked = 0
    /\ race = NoRace
    /\ rot = NoRotation
    /\ gate = NoGate
    /\ env = NoEnv

Next ==
    \/ \E c \in Callers : PatchCall(c)
    \/ \E c \in Callers : SnapshotCall(c)
    \/ \E c \in Callers : ReadVaultStep(c)
    \/ \E c \in Callers : ReadLedgerStep(c)
    \/ \E c \in Callers : CommitStep(c)
    \/ Tick

Spec == Init /\ [][Next]_vars

(***************************************************************************)
(* storage.ts: readMeta and writeMeta.  meta.json is not encrypted; the    *)
(* schema fixes the version numbers and wants a timestamp.                 *)
(***************************************************************************)
metaSchema(meta) ==
    /\ meta.schema_version = 1
    /\ meta.envelope_version = 1
    /\ meta.updated_at \in Nat

readMeta(files, dir, passphrase, t) ==
    LET ensured == ensureDataFiles(files, dir, passphrase, t)
    IN  IF metaSchema(ensured[<<dir, META>>].data)
        THEN [ok |-> TRUE, meta |-> ensured[<<dir, META>>].data]
        ELSE [ok |-> FALSE, error |-> StorageCorruptionError("meta.json schema mismatch")]

writeMeta(files, dir, meta) == [files EXCEPT ![<<dir, META>>] = File(meta)]

(***************************************************************************)
(* storage.ts: rewriteEncryptedData writes the given snapshot, the given   *)
(* entries line by line and the given metadata under this storage's        *)
(* passphrase.                                                             *)
(***************************************************************************)
RECURSIVE appendAll(_, _, _, _, _)
appendAll(files, dir, passphrase, entries, i) ==
    IF i > Len(entries) THEN files
    ELSE appendAll(appendLedgerEntry(files, dir, passphrase, entries[i]),
                   dir, passphrase, entries, i + 1)

(* A faulty variant of rewriteEncryptedData: the snapshot is not written, *)
(* the one ensureDataFiles created stays.                                 *)
rewriteEncryptedDataWithoutVault(files, dir, passphrase, snapshot, entries, meta, t) ==
    LET ensured == ensureDataFiles(files, dir, passphrase, t)
        emptied == [ensured EXCEPT ![<<dir, LEDGER>>] = File(<<>>)]
    IN  writeMeta(appendAll(emptied, dir, passphrase, entries, 1), dir, meta)

rewriteEncryptedData(files, dir, passphrase, snapshot, entries, meta, t) ==
    LET ensured == ensureDataFiles(files, dir, passphrase, t)
        emptied == [ensured EXCEPT ![<<dir, VAULT>>] = writeVault(snapshot, passphrase),
                                   ![<<dir, LEDGER>>] = File(<<>>)]
    IN  writeMeta(appendAll(emptied, dir, passphrase, entries, 1), dir, meta)

(***************************************************************************)
(* node:fs rename and unlink on the model's file system.                   *)
(***************************************************************************)
rename(files, src, dst) == [files EXCEPT ![dst] = files[src], ![src] = NoFile]

unlink(files, path) == [files EXCEPT ![path] = NoFile]

(***************************************************************************)
(* A whole patchMemory or snapshot call with no other call in between:     *)
(* the checks before the lock, the reads, the commit.                      *)
(***************************************************************************)
patchMemoryCall(files, dir, passphrase, ifMatchHeader, input, t) ==
    LET rejected == patchMemoryRejects(ifMatchHeader, input.patch)
        ensured == ensureDataFiles(files, dir, passphrase, t)
        vault == readVault(ensured, dir, passphrase)
        ledger == readLedgerEntries(ensured, dir, passphrase)
    IN  IF rejected.kind # "none" THEN [files |-> files, res |-> Thrown(rejected)]
        ELSE IF ~vault.ok THEN [files |-> ensured, res |-> Thrown(vault.error)]
        ELSE IF ~ledger.ok THEN [files |-> ensured, res |-> Thrown(ledger.error)]
        ELSE patchMemory(ensured, dir, passphrase, vault.snapshot, ledger.entries,
                         input, t)

snapshotCall(files, dir, passphrase, t) ==
    LET ensured == ensureDataFiles(files, dir, passphrase, t)
        vault == readVault(ensured, dir, passphrase)
        ledger == readLedgerEntries(ensured, dir, passphrase)
    IN  IF ~vault.ok THEN [files |-> ensured, res |-> Thrown(vault.error)]
        ELSE IF ~ledger.ok THEN [files |-> ensured, res |-> Thrown(ledger.error)]
        ELSE takeSnapshot(ensured, dir, passphrase, vault.snapshot, ledger.entries, t)

(***************************************************************************)
(* The passphrase rotation, scripts/reencrypt.ts, run on the data          *)
(* directory of a stopped engine whose vault was built by patchMemory and  *)
(* snapshot calls made one at a time.                                      *)
(*                                                                         *)
(* rot.pc is the script's position, rot.i the index of the loop it is in,  *)
(* rot.backupMap the files renamed to a backup so far (in insertion        *)
(* order), rot.swapped the script's flag, rot.failed whether an error is   *)
(* propagating, rot.faults the file-system operations that have failed;    *)
(* rot.snapshot, rot.entries and rot.meta are the plaintext the script     *)
(* loaded, rot.original the three files it found and rot.staged the three  *)
(* files it staged.                                                        *)
(***************************************************************************)
MaxFaults == 1

StorePatch ==
    /\ rot.pc = "off"
    /\ calls < MaxCalls
    /\ \E ifMatchHeader \in IfMatchInputs, patch \in {AddThenTestExtra, RemoveExtra},
          actor \in Actors, reason \in Reasons :
       \E done \in {patchMemoryCall(fs, DATA, OldPass, ifMatchHeader,
                                    [patch |-> patch, actor |-> actor, reason |-> reason,
                                     auth |-> authMode,
                                     baseVersion |-> parseIfMatch(ifMatchHeader)], now)} :
          /\ fs' = done.files
          /\ acked' = IF done.res.ok THEN acked + 1 ELSE acked
    /\ calls' = calls + 1
    /\ UNCHANGED <<now, authMode, lock, resolved, pc, local, ret, race, rot, gate, env>>

StoreSnapshot ==
    /\ rot.pc = "off"
    /\ calls < MaxCalls
    /\ \E done \in {snapshotCall(fs, DATA, OldPass, now)} : fs' = done.files
    /\ calls' = calls + 1
    /\ UNCHANGED <<now, authMode, lock, resolved, pc, local, ret, acked, race, rot, gate, env>>

DataFiles(files) == [f \in FileNames |-> files[<<DATA, f>>]]

Verifies(files, dir, passphrase, t) ==
    /\ verifyLedger(files, dir, passphrase, t).ok
    /\ getCurrentState(files, dir, passphrase, t).ok

(***************************************************************************)
(* reencrypt.ts, main: initialize, then the plaintext is read and checked  *)
(* with the old passphrase; an error here ends the script.                 *)
(***************************************************************************)
RotateLoad ==
    /\ rot.pc = "off"
    /\ \E ensured \in {ensureDataFiles(fs, DATA, OldPass, now)} :
       \E vault \in {readVault(ensured, DATA, OldPass)},
          ledger \in {readLedgerEntries(ensured, DATA, OldPass)},
          meta \in {readMeta(ensured, DATA, OldPass, now)} :
          /\ fs' = ensured
          /\ rot' = IF vault.ok /\ ledger.ok /\ meta.ok
                       /\ Verifies(ensured, DATA, OldPass, now)
                    THEN [pc |-> "stage", i |-> 0, backupMap |-> <<>>,
                          swapped |-> FALSE, failed |-> FALSE, faults |-> 0,
                          snapshot |-> vault.snapshot, entries |-> ledger.entries,
                          meta |-> meta.meta, original |-> DataFiles(ensured),
                          staged |-> DataFiles(ensured)]
                    ELSE [pc |-> "exited"]
    /\ UNCHANGED <<now, authMode, lock, resolved, pc, local, ret, calls, acked, race, gate, env>>

(***************************************************************************)
(* The staging directory is written with the new passphrase and checked.   *)
(***************************************************************************)
RotateStage ==
    /\ rot.pc = "stage"
    /\ \E staged \in {rewriteEncryptedData(fs, "stage", NewPass, rot.snapshot, rot.entries,
                                           [rot.meta EXCEPT !.updated_at = now], now)} :
          /\ fs' = staged
          /\ rot' = IF Verifies(staged, "stage", NewPass, now)
                    THEN [rot EXCEPT !.pc = "backup", !.i = 1,
                                     !.staged = [f \in FileNames |-> staged[<<"stage", f>>]]]
                    ELSE [pc |-> "exited"]
    /\ UNCHANGED <<now, authMode, lock, resolved, pc, local, ret, calls, acked, race, gate, env>>

(***************************************************************************)
(* A file-system operation of the try block or of the catch block may      *)
(* fail, at most MaxFaults times in a run.  An error thrown in the try     *)
(* block enters the catch block; one thrown in the catch block leaves it   *)
(* for the finally block.                                                  *)
(***************************************************************************)
MayFail == {FALSE} \cup (IF rot.faults < MaxFaults THEN {TRUE} ELSE {})

Catch(r, fault) ==
    [r EXCEPT !.pc = IF r.swapped THEN "rollbackUnlink" ELSE "rollbackRestore",
              !.i = 1, !.failed = TRUE,
              !.faults = IF fault THEN @ + 1 ELSE @]

Rethrow(r) == [r EXCEPT !.pc = "cleanup", !.failed = TRUE, !.faults = @ + 1]

(***************************************************************************)
(* First loop: each file of the data directory is renamed to its backup.   *)
(***************************************************************************)
RotateBackup ==
    /\ rot.pc = "backup"
    /\ IF rot.i > Len(Files)
       THEN /\ rot' = [rot EXCEPT !.pc = "swap", !.i = 1]
            /\ fs' = fs
       ELSE \E fails \in MayFail :
               IF ~fs[<<DATA, Files[rot.i]>>].exists
               THEN /\ rot' = [rot EXCEPT !.i = @ + 1]
                    /\ fs' = fs
               ELSE IF fails
               THEN /\ rot' = Catch(rot, TRUE)
                    /\ fs' = fs
               ELSE /\ rot' = [rot EXCEPT !.i = @ + 1,
                                          !.backupMap = Append(@, Files[rot.i])]
                    /\ fs' = rename(fs, <<DATA, Files[rot.i]>>, <<"bak", Files[rot.i]>>)
    /\ UNCHANGED <<now, authMode, lock, resolved, pc, local, ret, calls, acked, race, gate, env>>

(***************************************************************************)
(* Second loop: each staged file is renamed into the data directory; then  *)
(* swapped is set.                                                         *)
(***************************************************************************)
RotateSwap ==
    /\ rot.pc = "swap"
    /\ IF rot.i > Len(Files)
       THEN /\ rot' = [rot EXCEPT !.pc = "verify", !.swapped = TRUE]
            /\ fs' = fs
       ELSE \E fails \in MayFail :
               IF fails \/ ~fs[<<"stage", Files[rot.i]>>].exists
               THEN /\ rot' = Catch(rot, fails)
                    /\ fs' = fs
               ELSE /\ rot' = [rot EXCEPT !.i = @ + 1]
                    /\ fs' = rename(fs, <<"stage", Files[rot.i]>>, <<DATA, Files[rot.i]>>)
    /\ UNCHANGED <<now, authMode, lock, resolved, pc, local, ret, calls, acked, race, gate, env>>

(***************************************************************************)
(* The swapped directory is checked with the new passphrase.               *)
(***************************************************************************)
RotateVerify ==
    /\ rot.pc = "verify"
    /\ \E fails \in MayFail :
       \E ensured \in {ensureDataFiles(fs, DATA, NewPass, now)} :
          /\ fs' = ensured
          /\ rot' = IF fails \/ ~Verifies(ensured, DATA, NewPass, now)
                    THEN Catch(rot, fails)
                    ELSE [rot EXCEPT !.pc = "unlink", !.i = 1]
    /\ UNCHANGED <<now, authMode, lock, resolved, pc, local, ret, calls, acked, race, gate, env>>

(***************************************************************************)
(* Third loop: each backup of backupMap that exists is unlinked.           *)
(***************************************************************************)
RotateUnlink ==
    /\ rot.pc = "unlink"
    /\ IF rot.i > Len(rot.backupMap)
       THEN /\ rot' = [rot EXCEPT !.pc = "cleanup"]
            /\ fs' = fs
       ELSE \E fails \in MayFail :
               IF ~fs[<<"bak", rot.backupMap[rot.i]>>].exists
               THEN /\ rot' = [rot EXCEPT !.i = @ + 1]
                    /\ fs' = fs
               ELSE IF fails
               THEN /\ rot' = Catch(rot, TRUE)
                    /\ fs' = fs
               ELSE /\ rot' = [rot EXCEPT !.i = @ + 1]
                    /\ fs' = unlink(fs, <<"bak", rot.backupMap[rot.i]>>)
    /\ UNCHANGED <<now, authMode, lock, resolved, pc, local, ret, calls, acked, race, gate, env>>

(***************************************************************************)
(* The catch block.  With swapped set, each of the three files that exists *)
(* in the data directory is unlinked; then each backup of backupMap that   *)
(* exists is renamed back.                                                 *)
(***************************************************************************)
RotateRollbackUnlink ==
    /\ rot.pc = "rollbackUnlink"
    /\ IF rot.i > Len(Files)
       THEN /\ rot' = [rot EXCEPT !.pc = "rollbackRestore", !.i = 1]
            /\ fs' = fs
       ELSE \E fails \in MayFail :
               IF ~fs[<<DATA, Files[rot.i]>>].exists
               THEN /\ rot' = [rot EXCEPT !.i = @ + 1]
                    /\ fs' = fs
               ELSE IF fails
               THEN /\ rot' = Rethrow(rot)
                    /\ fs' = fs
               ELSE /\ rot' = [rot EXCEPT !.i = @ + 1]
                    /\ fs' = unlink(fs, <<DATA, Files[rot.i]>>)
    /\ UNCHANGED <<now, authMode, lock, resolved, pc, local, ret, calls, acked, race, gate, env>>

RotateRollbackRestore ==
    /\ rot.pc = "rollbackRestore"
    /\ IF rot.i > Len(rot.backupMap)
       THEN /\ rot' = [rot EXCEPT !.pc = "cleanup"]
            /\ fs' = fs
       ELSE \E fails \in MayFail :
               IF ~fs[<<"bak", rot.backupMap[rot.i]>>].exists
               THEN /\ rot' = [rot EXCEPT !.i = @ + 1]
                    /\ fs' = fs
               ELSE IF fails
               THEN /\ rot' = Rethrow(rot)
                    /\ fs' = fs
               ELSE /\ rot' = [rot EXCEPT !.i = @ + 1]
                    /\ fs' = rename(fs, <<"bak", rot.backupMap[rot.i]>>,
                                    <<DATA, rot.backupMap[rot.i]>>)
    /\ UNCHANGED <<now, authMode, lock, resolved, pc, local, ret, calls, acked, race, gate, env>>

(***************************************************************************)
(* The finally block removes the staging directory; the script then ends,  *)
(* with the error if one is propagating.                                   *)
(***************************************************************************)
RotateCleanup ==
    /\ rot.pc = "cleanup"
    /\ fs' = [p \in Paths |-> IF p[1] = "stage" THEN NoFile ELSE fs[p]]
    /\ rot' = [rot EXCEPT !.pc = IF rot.failed THEN "failed" ELSE "done"]
    /\ UNCHANGED <<now, authMode, lock, resolved, pc, local, ret, calls, acked, race, gate, env>>

(***************************************************************************)
(* The process is killed between two file-system operations of the try or  *)
(* catch block: nothing more runs, the finally block included.             *)
(***************************************************************************)
Running ==
    {"backup", "swap", "verify", "unlink", "rollbackUnlink", "rollbackRestore", "cleanup"}

RotateCrash ==
    /\ rot.pc \in Running
    /\ rot' = [rot EXCEPT !.pc = "crashed"]
    /\ UNCHANGED <<fs, now, authMode, lock, resolved, pc, local, ret, calls, acked, race, gate, env>>

NextRotate ==
    \/ StorePatch
    \/ StoreSnapshot
    \/ Tick
    \/ RotateLoad
    \/ RotateStage
    \/ RotateBackup
    \/ RotateSwap
    \/ RotateVerify
    \/ RotateUnlink
    \/ RotateRollbackUnlink
    \/ RotateRollbackRestore
    \/ RotateCleanup
    \/ RotateCrash

SpecRotate == Init /\ [][NextRotate]_vars

(***************************************************************************)
(* server.ts: the request surface.  A header, a query parameter or the     *)
(* configured write token is absent (undefined) or has a value; the        *)
(* Authorization value and the write token are sequences of characters.    *)
(***************************************************************************)
Absent == [present |-> FALSE]
Present(value) == [present |-> TRUE, value |-> value]

BEARER == <<"B", "e", "a", "r", "e", "r">>

(***************************************************************************)
(* /^Bearer\s+(.+)$/.exec(header): the capture group when the value        *)
(* matches.  \s+ is greedy and gives back one character when nothing else  *)
(* is left for the group.                                                  *)
(***************************************************************************)
bearerMatch(header) ==
    LET rest == SubSeq(header, Len(BEARER) + 1, Len(header))
        group == TrimLeft(rest)
    IN  IF Len(header) < Len(BEARER) \/ SubSeq(header, 1, Len(BEARER)) # BEARER
        THEN [matched |-> FALSE]
        ELSE IF Len(group) > 0 /\ Len(group) < Len(rest)
        THEN [matched |-> TRUE, group |-> group]
        ELSE IF Len(group) = 0 /\ Len(rest) >= 2
        THEN [matched |-> TRUE, group |-> <<rest[Len(rest)]>>]
        ELSE [matched |-> FALSE]

(* A faulty variant of requireWriteAuth: a satisfied gate is marked "none". *)
requireWriteAuthMarksNone(authorization, writeToken) ==
    IF ~writeToken.present \/ Len(writeToken.value) = 0
    THEN [ok |-> TRUE, authMode |-> "none"]
    ELSE IF ~authorization.present \/ Len(authorization.value) = 0
    THEN Thrown(UnauthorizedError("Missing Authorization header"))
    ELSE LET m == bearerMatch(Trim(authorization.value))
         IN  IF ~m.matched \/ m.group # writeToken.value
             THEN Thrown(UnauthorizedError("Invalid write token"))
             ELSE [ok |-> TRUE, authMode |-> "none"]

requireWriteAuth(authorization, writeToken) ==
    IF ~writeToken.present \/ Len(writeToken.value) = 0
    THEN [ok |-> TRUE, authMode |-> "none"]
    ELSE IF ~authorization.present \/ Len(authorization.value) = 0
    THEN Thrown(UnauthorizedError("Missing Authorization header"))
    ELSE LET m == bearerMatch(Trim(authorization.value))
         IN  IF ~m.matched \/ m.group # writeToken.value
             THEN Thrown(UnauthorizedError("Invalid write token"))
             ELSE [ok |-> TRUE, authMode |-> "token"]

(***************************************************************************)
(* parseContentType: the part before the first ";", trimmed, in lower      *)
(* case, given for the Content-Type values the model sends.                *)
(***************************************************************************)
JSON_PATCH == "application/json-patch+json"

parseContentType(value) ==
    IF ~value.present THEN ""
    ELSE CASE value.value = "application/json-patch+json" -> JSON_PATCH
           [] value.value = "Application/JSON-Patch+JSON; charset=utf-8" -> JSON_PATCH
           [] value.value = "application/json" -> "application/json"
           [] OTHER -> ""

(***************************************************************************)
(* The response of a handler that returned, and of one that threw.         *)
(***************************************************************************)
Reply(files, headers, body) ==
    [files |-> files, status |-> 200, headers |-> headers, body |-> body]

ReplyError(files, error) ==
    [files |-> files, status |-> errorHandler(error).status,
     headers |-> errorHandler(error).headers, body |-> errorHandler(error).body]

(***************************************************************************)
(* Number.parseInt(text, 10) on a query parameter: leading white space, an *)
(* optional sign, then the longest run of digits; NaN when there is none.  *)
(***************************************************************************)
RECURSIVE DigitPrefix(_)
DigitPrefix(s) ==
    IF Len(s) > 0 /\ IsDigit(s[1]) THEN <<s[1]>> \o DigitPrefix(Tail(s)) ELSE <<>>

parseInt(text) ==
    LET t == TrimLeft(text)
        signed == Len(t) > 0 /\ t[1] \in {"-", "+"}
        digits == DigitPrefix(IF signed THEN Tail(t) ELSE t)
    IN  IF Len(digits) = 0 THEN [isInteger |-> FALSE, value |-> 0]
        ELSE [isInteger |-> TRUE,
              value |-> IF signed /\ t[1] = "-" THEN 0 - ParseDecimal(digits)
                        ELSE ParseDecimal(digits)]

(***************************************************************************)
(* server.ts: the handlers of PATCH /v1/memory, POST /v1/snapshot,         *)
(* GET /v1/memory, GET /v1/ledger and GET /healthz.                        *)
(***************************************************************************)
Only(S) == CHOOSE x \in S : TRUE

patchHandler(files, request, writeToken, t) ==
    Only({IF ~auth.ok THEN ReplyError(files, auth.error)
          ELSE IF parseContentType(request.contentType) # JSON_PATCH
          THEN ReplyError(files, SchemaValidationError(
                                     "Content-Type must be application/json-patch+json"))
          ELSE IF ~request.ifMatch.present \/ Len(Trim(request.ifMatch.value)) = 0
          THEN ReplyError(files, SchemaValidationError("If-Match header is required"))
          ELSE IF ~jsonPatchSchema(request.body)
          THEN ReplyError(files, SchemaValidationError("Invalid JSON Patch body"))
          ELSE Only({IF ~done.res.ok THEN ReplyError(done.files, done.res.error)
                     ELSE Reply(done.files,
                                [ETag |-> etagForVersion(done.res.state.memory.version)],
                                [memory |-> done.res.state.memory,
                                 applied_entry_cursor |-> done.res.applied_entry_cursor,
                                 snapshot_cursor |-> done.res.state.snapshot_cursor,
                                 ledger_cursor |-> done.res.state.ledger_cursor]) :
                     done \in {patchMemoryCall(files, DATA, OldPass, request.ifMatch.value,
                                  [patch |-> request.body,
                                   actor |-> IF request.actor.present
                                             THEN request.actor.value ELSE "unknown",
                                   reason |-> IF request.reason.present
                                              THEN request.reason.value ELSE "unspecified",
                                   auth |-> auth.authMode,
                                   baseVersion |-> parseIfMatch(request.ifMatch.value)], t)}}) :
          auth \in {requireWriteAuth(request.authorization, writeToken)}})

snapshotHandler(files, request, writeToken, t) ==
    Only({IF ~auth.ok THEN ReplyError(files, auth.error)
          ELSE Only({IF ~done.res.ok THEN ReplyError(done.files, done.res.error)
                     ELSE Reply(done.files, NoMembers,
                                [snapshot_cursor |-> done.res.snapshot_cursor,
                                 ledger_cursor |-> done.res.ledger_cursor,
                                 memory_version |-> done.res.memory_version]) :
                     done \in {snapshotCall(files, DATA, OldPass, t)}}) :
          auth \in {requireWriteAuth(request.authorization, writeToken)}})

getMemoryHandler(files, t) ==
    Only({IF ~state.ok THEN ReplyError(ensureDataFiles(files, DATA, OldPass, t), state.error)
          ELSE Reply(ensureDataFiles(files, DATA, OldPass, t),
                     [ETag |-> etagForVersion(state.state.memory.version)], state.state) :
          state \in {getCurrentState(files, DATA, OldPass, t)}})

getLedgerHandler(files, query, t) ==
    Only({IF ~since.isInteger \/ since.value < 0
          THEN ReplyError(files, SchemaValidationError("since must be a non-negative integer"))
          ELSE IF ~limit.isInteger \/ limit.value <= 0
          THEN ReplyError(files, SchemaValidationError("limit must be a positive integer"))
          ELSE Only({IF ~page.ok
                     THEN ReplyError(ensureDataFiles(files, DATA, OldPass, t), page.error)
                     ELSE Reply(ensureDataFiles(files, DATA, OldPass, t), NoMembers, page) :
                     page \in {getLedger(files, DATA, OldPass, since.value, limit.value, t)}}) :
          since \in {IF query.since.present /\ Len(query.since.value) > 0
                     THEN parseInt(query.since.value)
                     ELSE [isInteger |-> TRUE, value |-> 0]},
          limit \in {IF query.limit.present /\ Len(query.limit.value) > 0
                     THEN parseInt(query.limit.value)
                     ELSE [isInteger |-> TRUE, value |-> 100]}})

healthzHandler(files) == Reply(files, NoMembers, [ok |-> TRUE])

(***************************************************************************)
(* The server: requests handled one at a time on an engine opened with the *)
(* passphrase "old" and a write token configuration chosen at start.       *)
(* gate.writeToken is the configuration; for the last request handled,     *)
(* gate.method, gate.url and gate.authorization say what was sent,         *)
(* gate.status what was answered and gate.unchanged whether the files are  *)
(* as they were before it.  At most MaxWrites requests change the files.   *)
(***************************************************************************)
MaxWrites == 2

Tokens == {<<"t", "k">>, <<"T", "k">>, <<" ", "t", "k">>}

WriteTokenInputs == {Absent, Present(<<>>)} \cup {Present(token) : token \in Tokens}

AuthorizationInputs ==
    {Absent, Present(<<>>), Present(<<"t", "k">>),
     Present(<<" ">> \o BEARER \o <<" ", "t", "k", " ">>),
     Present(<<"B", "a", "s", "i", "c", " ", "t", "k">>)}
    \cup {Present(scheme \o separator \o token) :
             scheme \in {BEARER, <<"b", "e", "a", "r", "e", "r">>},
             separator \in {<<>>, <<" ">>, <<"\t", " ">>},
             token \in Tokens \cup {<<>>, <<"t", "k", "k">>}}

ReadAuthorizationInputs == {Absent, Present(BEARER \o <<" ", "t", "k", "k">>)}

PatchRequestInputs ==
    [authorization : AuthorizationInputs,
     contentType : {Present("application/json-patch+json"), Present("application/json")},
     ifMatch : {Present(etagForVersion(0)), Present(etagForVersion(1))},
     actor : {Present("agent")},
     reason : {Present("why")},
     body : {AddThenTestExtra}]

LedgerQueryInputs ==
    [since : {Absent, Present(<<"1">>), Present(<<"-", "1">>)},
     limit : {Absent, Present(<<"1">>), Present(<<"x">>)}]

Handled(method, url, authorization, reply) ==
    /\ calls' = IF reply.files = fs THEN calls ELSE calls + 1
    /\ calls' <= MaxWrites
    /\ fs' = reply.files
    /\ gate' = [writeToken |-> gate.writeToken, decided |-> TRUE, method |-> method,
                url |-> url, authorization |-> authorization,
                status |-> reply.status, unchanged |-> (reply.files = fs)]
    /\ UNCHANGED <<now, authMode, lock, resolved, pc, local, ret, acked, race, rot, env>>

PatchRequest ==
    \E request \in PatchRequestInputs :
    \E reply \in {patchHandler(fs, request, gate.writeToken, now)} :
       Handled("PATCH", "/v1/memory", request.authorization, reply)

SnapshotRequest ==
    \E authorization \in AuthorizationInputs :
    \E reply \in {snapshotHandler(fs, [authorization |-> authorization],
                                  gate.writeToken, now)} :
       Handled("POST", "/v1/snapshot", authorization, reply)

GetMemoryRequest ==
    \E authorization \in ReadAuthorizationInputs :
    \E reply \in {getMemoryHandler(fs, now)} :
       Handled("GET", "/v1/memory", authorization, reply)

GetLedgerRequest ==
    \E authorization \in ReadAuthorizationInputs, query \in LedgerQueryInputs :
    \E reply \in {getLedgerHandler(fs, query, now)} :
       Handled("GET", "/v1/ledger", authorization, reply)

HealthzRequest ==
    \E authorization \in ReadAuthorizationInputs :
    \E reply \in {healthzHandler(fs)} :
       Handled("GET", "/healthz", authorization, reply)

InitServer ==
    /\ fs = ensureDataFiles([p \in Paths |-> NoFile], DATA, OldPass, 0)
    /\ now = 0
    /\ \E writeToken \in WriteTokenInputs :
          /\ gate = [decided |-> FALSE, writeToken |-> writeToken]
          /\ authMode = "none"
    /\ lock = 0
    /\ resolved = {0}
    /\ pc = [c \in Callers |-> "idle"]
    /\ local = [c \in Callers |-> NoLocal]
    /\ ret = NoReturn
    /\ calls = 0
    /\ acked = 0
    /\ race = NoRace
    /\ rot = NoRotation
    /\ env = NoEnv

NextServer ==
    \/ PatchRequest
    \/ SnapshotRequest
    \/ GetMemoryRequest
    \/ GetLedgerRequest
    \/ HealthzRequest

SpecServer == InitServer /\ [][NextServer]_vars

(***************************************************************************)
(* Damage to the files of a stopped or idle engine: patchMemory and        *)
(* snapshot calls made one at a time, a write of a journal line cut off by *)
(* a crash (with or without its line feed), and bytes of one envelope      *)
(* changed on disk.  env.torn says whether a cut-off line was left,        *)
(* env.reported is the highest version a patchMemory call has returned     *)
(* since then, env.tamper the envelope and part that was changed.          *)
(***************************************************************************)
EnvelopeParts == {"ciphertext", "tag", "iv", "salt", "aad"}

Flip(envelope, part) ==
    CASE part \in {"ciphertext", "tag"} -> [envelope EXCEPT !.flipped = @ \cup {part}]
      [] part = "iv" -> [envelope EXCEPT !.iv = 1 - @]
      [] part = "salt" -> [envelope EXCEPT !.salt = 1 - @]
      [] part = "aad" -> [envelope EXCEPT !.aad = <<<<"flipped", @>>>>]

NoTamper == [where |-> "none"]

DamagePatch ==
    /\ calls < MaxCalls
    /\ \E ifMatchHeader \in IfMatchInputs, patch \in {AddThenTestExtra, RemoveExtra} :
       \E done \in {patchMemoryCall(fs, DATA, OldPass, ifMatchHeader,
                                    [patch |-> patch, actor |-> "agent", reason |-> "why",
                                     auth |-> authMode,
                                     baseVersion |-> parseIfMatch(ifMatchHeader)], now)} :
          /\ fs' = done.files
          /\ acked' = IF done.res.ok THEN acked + 1 ELSE acked
          /\ env' = IF done.res.ok /\ env.torn
                    THEN [env EXCEPT !.reported = done.res.state.memory.version]
                    ELSE env
    /\ calls' = calls + 1
    /\ UNCHANGED <<now, authMode, lock, resolved, pc, local, ret, race, rot, gate>>

DamageSnapshot ==
    /\ calls < MaxCalls
    /\ \E done \in {snapshotCall(fs, DATA, OldPass, now)} : fs' = done.files
    /\ calls' = calls + 1
    /\ UNCHANGED <<now, authMode, lock, resolved, pc, local, ret, acked, race, rot, gate,
                   env>>

TornAppend ==
    /\ ~env.torn
    /\ \E lf \in BOOLEAN :
          fs' = [fs EXCEPT ![<<DATA, LEDGER>>] = File(@.data \o <<Torn(lf)>>)]
    /\ env' = [env EXCEPT !.torn = TRUE]
    /\ UNCHANGED <<now, authMode, lock, resolved, pc, local, ret, calls, acked, race, rot,
                   gate>>

TamperVault ==
    /\ env.tamper = NoTamper
    /\ \E part \in EnvelopeParts :
          /\ fs' = [fs EXCEPT ![<<DATA, VAULT>>] = File(Flip(@.data, part))]
          /\ env' = [env EXCEPT !.tamper = [where |-> VAULT, part |-> part]]
    /\ UNCHANGED <<now, authMode, lock, resolved, pc, local, ret, calls, acked, race, rot,
                   gate>>

TamperLedger ==
    /\ env.tamper = NoTamper
    /\ \E line \in 1..Len(fs[<<DATA, LEDGER>>].data), part \in EnvelopeParts :
          /\ ~IsTorn(fs[<<DATA, LEDGER>>].data[line])
          /\ fs' = [fs EXCEPT ![<<DATA, LEDGER>>] =
                       File([@.data EXCEPT ![line] = Flip(@, part)])]
          /\ env' = [env EXCEPT !.tamper = [where |-> LEDGER, line |-> line, part |-> part]]
    /\ UNCHANGED <<now, authMode, lock, resolved, pc, local, ret, calls, acked, race, rot,
                   gate>>

InitDamage ==
    /\ fs = ensureDataFiles([p \in Paths |-> NoFile], DATA, OldPass, 0)
    /\ now = 0
    /\ authMode \in Auths
    /\ lock = 0
    /\ resolved = {0}
    /\ pc = [c \in Callers |-> "idle"]
    /\ local = [c \in Callers |-> NoLocal]
    /\ ret = NoReturn
    /\ calls = 0
    /\ acked = 0
    /\ race = NoRace
    /\ rot = NoRotation
    /\ gate = NoGate
    /\ env = [kind |-> "damage", torn |-> FALSE, reported |-> 0, tamper |-> NoTamper]

NextDamage ==
    \/ DamagePatch
    \/ DamageSnapshot
    \/ TornAppend
    \/ TamperVault
    \/ TamperLedger

SpecDamage == InitDamage /\ [][NextDamage]_vars

(***************************************************************************)
(* The engine at the grain of its file operations: one writer whose calls  *)
(* run one after another under the lock, one reader that takes no lock,    *)
(* and a crash of the process or the machine.                              *)
(*                                                                         *)
(* appendLedgerEntry is handle.write (the line is in the file) and then    *)
(* handle.sync (the line is on the disk), after which patchMemory returns. *)
(* writeVault is fs.writeFile on vault.enc itself: the file is opened with *)
(* truncation, then the envelope is written.  getCurrentState is           *)
(* ensureDataFiles, the readFile of readVault, the readFile of             *)
(* readLedgerEntries, the replay.                                          *)
(*                                                                         *)
(*   env.wpc      where the writer is: "idle", "sync" (a line written and  *)
(*                not synced), "write" (vault.enc opened and not written)  *)
(*   env.pending  the version the patch in flight is about to report       *)
(*   env.reported the highest version a returned patch reported            *)
(*   env.prev, env.next   vault.enc before and after the compaction in     *)
(*                flight                                                   *)
(*   env.before   the state assembled from the files when the call in      *)
(*                flight began                                             *)
(*   env.rpc      where the reader is: "idle", "vault", "ledger", "done"   *)
(*   env.begin, env.end   the number of journal lines when the read began  *)
(*                and when it read the journal                             *)
(*   env.vault    what the reader's readVault returned                     *)
(*   env.result   what the read returned                                   *)
(*   env.crashed  "no", or the position of the writer at the crash         *)
(***************************************************************************)
StepPatch ==
    /\ env.crashed = "no"
    /\ env.wpc = "idle"
    /\ calls < MaxCalls
    /\ \E ifMatchHeader \in IfMatchInputs, patch \in {AddThenTestExtra, RemoveExtra},
          actor \in Actors :
       \E done \in {patchMemoryCall(fs, DATA, OldPass, ifMatchHeader,
                                    [patch |-> patch, actor |-> actor, reason |-> "why",
                                     auth |-> authMode,
                                     baseVersion |-> parseIfMatch(ifMatchHeader)], now)},
          before \in {getCurrentState(fs, DATA, OldPass, now)} :
          /\ fs' = done.files
          /\ env' = IF done.res.ok
                    THEN [env EXCEPT !.wpc = "sync", !.before = before,
                                     !.pending = done.res.state.memory.version]
                    ELSE env
    /\ calls' = calls + 1
    /\ UNCHANGED <<now, authMode, lock, resolved, pc, local, ret, acked, race, rot, gate>>

StepSync ==
    /\ env.crashed = "no"
    /\ env.wpc = "sync"
    /\ env' = [env EXCEPT !.wpc = "idle", !.reported = Max(@, env.pending)]
    /\ acked' = acked + 1
    /\ UNCHANGED <<fs, now, authMode, lock, resolved, pc, local, ret, calls, race, rot,
                   gate>>

StepTruncate ==
    /\ env.crashed = "no"
    /\ env.wpc = "idle"
    /\ calls < MaxCalls
    /\ \E done \in {snapshotCall(fs, DATA, OldPass, now)},
          before \in {getCurrentState(fs, DATA, OldPass, now)} :
          IF done.files = fs
          THEN UNCHANGED <<fs, env>>
          ELSE /\ fs' = [fs EXCEPT ![<<DATA, VAULT>>] = File(Truncated)]
               /\ env' = [env EXCEPT !.wpc = "write", !.before = before,
                                     !.prev = fs[<<DATA, VAULT>>],
                                     !.next = done.files[<<DATA, VAULT>>]]
    /\ calls' = calls + 1
    /\ UNCHANGED <<now, authMode, lock, resolved, pc, local, ret, acked, race, rot, gate>>

StepWrite ==
    /\ env.crashed = "no"
    /\ env.wpc = "write"
    /\ fs' = [fs EXCEPT ![<<DATA, VAULT>>] = env.next]
    /\ env' = [env EXCEPT !.wpc = "idle"]
    /\ UNCHANGED <<now, authMode, lock, resolved, pc, local, ret, calls, acked, race, rot,
                   gate>>

ReadBegin ==
    /\ env.crashed = "no"
    /\ env.rpc \in {"idle", "done"}
    /\ env' = [env EXCEPT !.rpc = "vault", !.begin = Len(fs[<<DATA, LEDGER>>].data),
                          !.end = 0, !.vault = NoLocal, !.result = NoLocal]
    /\ UNCHANGED <<fs, now, authMode, lock, resolved, pc, local, ret, calls, acked, race,
                   rot, gate>>

ReadVault ==
    /\ env.crashed = "no"
    /\ env.rpc = "vault"
    /\ \E vault \in {readVault(fs, DATA, OldPass)} :
          env' = IF vault.ok THEN [env EXCEPT !.rpc = "ledger", !.vault = vault]
                 ELSE [env EXCEPT !.rpc = "done", !.result = vault]
    /\ UNCHANGED <<fs, now, authMode, lock, resolved, pc, local, ret, calls, acked, race,
                   rot, gate>>

ReadLedger ==
    /\ env.crashed = "no"
    /\ env.rpc = "ledger"
    /\ \E ledger \in {readLedgerEntries(fs, DATA, OldPass)} :
          env' = [env EXCEPT !.rpc = "done", !.end = Len(fs[<<DATA, LEDGER>>].data),
                             !.result = IF ledger.ok
                                        THEN replayLedger(env.vault.snapshot, ledger.entries)
                                        ELSE ledger]
    /\ UNCHANGED <<fs, now, authMode, lock, resolved, pc, local, ret, calls, acked, race,
                   rot, gate>>

(***************************************************************************)
(* A crash.  A line written and not synced is on the disk, or is not, or   *)
(* is there in part; a vault.enc opened for writing stays as it is.        *)
(***************************************************************************)
Crash ==
    /\ env.crashed = "no"
    /\ \E lines \in IF env.wpc = "sync"
                    THEN {fs[<<DATA, LEDGER>>].data,
                          SubSeq(fs[<<DATA, LEDGER>>].data, 1,
                                 Len(fs[<<DATA, LEDGER>>].data) - 1),
                          [fs[<<DATA, LEDGER>>].data
                             EXCEPT ![Len(fs[<<DATA, LEDGER>>].data)] = Torn(FALSE)]}
                    ELSE {fs[<<DATA, LEDGER>>].data} :
          fs' = [fs EXCEPT ![<<DATA, LEDGER>>] = File(lines)]
    /\ env' = [env EXCEPT !.crashed = env.wpc, !.wpc = "idle", !.rpc = "idle"]
    /\ UNCHANGED <<now, authMode, lock, resolved, pc, local, ret, calls, acked, race, rot,
                   gate>>

InitSteps ==
    /\ fs = ensureDataFiles([p \in Paths |-> NoFile], DATA, OldPass, 0)
    /\ now = 0
    /\ authMode \in Auths
    /\ lock = 0
    /\ resolved = {0}
    /\ pc = [c \in Callers |-> "idle"]
    /\ local = [c \in Callers |-> NoLocal]
    /\ ret = NoReturn
    /\ calls = 0
    /\ acked = 0
    /\ race = NoRace
    /\ rot = NoRotation
    /\ gate = NoGate
    /\ env = [kind |-> "steps", wpc |-> "idle", pending |-> 0, reported |-> 0,
              prev |-> NoFile, next |-> NoFile, before |-> NoLocal,
              rpc |-> "idle", begin |-> 0, end |-> 0, vault |-> NoLocal,
              result |-> NoLocal, crashed |-> "no"]

NextSteps ==
    \/ StepPatch
    \/ StepSync
    \/ StepTruncate
    \/ StepWrite
    \/ ReadBegin
    \/ ReadVault
    \/ ReadLedger
    \/ Crash

SpecSteps == InitSteps /\ [][NextSteps]_vars

(***************************************************************************)
(* patchMemory and snapshot called one after another on an initialized     *)
(* directory, with patches of every outcome: applicable, failing at an     *)
(* operation after one that applied, removing a reserved key, naming a     *)
(* reserved path, malformed.                                               *)
(*                                                                         *)
(*   env.op       the call that returned last: "none", "patch", "snapshot" *)
(*   env.called   that call was a patchMemory                              *)
(*   env.before   the files when that call was made                        *)
(*   env.ifMatch, env.patch   its If-Match header and its patch            *)
(*   env.res      what it returned                                         *)
(***************************************************************************)
RemoveIdentity == <<[op |-> "remove", path |-> "/identity"]>>
ReplaceUpdatedAt == <<[op |-> "replace", path |-> "/updated_at", value |-> "A"]>>
AddThenFailTest ==
    <<[op |-> "add", path |-> "/extra", value |-> "A"],
      [op |-> "test", path |-> "/extra", value |-> "B"]>>

CallPatchInputs ==
    {AddIdentity, AddThenTestExtra, RemoveExtra, RemoveIdentity, AddVersion,
     ReplaceUpdatedAt, MoveWithoutFrom, AddThenFailTest}

CallPatch ==
    /\ calls < MaxCalls
    /\ \E ifMatchHeader \in IfMatchInputs, patch \in CallPatchInputs, actor \in Actors :
       \E done \in {patchMemoryCall(fs, DATA, OldPass, ifMatchHeader,
                                    [patch |-> patch, actor |-> actor, reason |-> "why",
                                     auth |-> authMode,
                                     baseVersion |-> parseIfMatch(ifMatchHeader)], now)} :
          /\ fs' = done.files
          /\ acked' = IF done.res.ok THEN acked + 1 ELSE acked
          /\ env' = [env EXCEPT !.called = TRUE, !.op = "patch", !.before = fs,
                                !.ifMatch = ifMatchHeader,
                                !.patch = patch, !.res = done.res]
    /\ calls' = calls + 1
    /\ UNCHANGED <<now, authMode, lock, resolved, pc, local, ret, race, rot, gate>>

CallSnapshot ==
    /\ calls < MaxCalls
    /\ \E done \in {snapshotCall(fs, DATA, OldPass, now)} :
          /\ fs' = done.files
          /\ env' = [env EXCEPT !.called = FALSE, !.op = "snapshot", !.before = fs,
                                !.res = done.res]
    /\ calls' = calls + 1
    /\ UNCHANGED <<now, authMode, lock, resolved, pc, local, ret, acked, race, rot, gate>>

InitCalls ==
    /\ fs = ensureDataFiles([p \in Paths |-> NoFile], DATA, OldPass, 0)
    /\ now = 0
    /\ authMode \in Auths
    /\ lock = 0
    /\ resolved = {0}
    /\ pc = [c \in Callers |-> "idle"]
    /\ local = [c \in Callers |-> NoLocal]
    /\ ret = NoReturn
    /\ calls = 0
    /\ acked = 0
    /\ race = NoRace
    /\ rot = NoRotation
    /\ gate = NoGate
    /\ env = [kind |-> "calls", called |-> FALSE, op |-> "none", before |-> fs,
              ifMatch |-> ABSENT,
              patch |-> <<>>, res |-> NoLocal]

NextCalls ==
    \/ CallPatch
    \/ CallSnapshot

SpecCalls == InitCalls /\ [][NextCalls]_vars

(***************************************************************************)
(* getLedger on journals up to a length beyond the largest page.  The page *)
(* is computed from the cursors of the entries read, which                 *)
(* readLedgerEntries returns only when entry i has cursor i; an entry here *)
(* is its cursor and its new_version.                                      *)
(*                                                                         *)
(*   env.entries, env.snapshot   what readLedgerEntries and readVault gave *)
(*   env.since, env.limit        the arguments of the last getLedger       *)
(*   env.page                    what it returned                          *)
(***************************************************************************)
LongJournal == 502

JournalLengths == {0, 1, 2, 3, LongJournal - 1, LongJournal}

PageArguments == {-1, 0, 1, 2, 499, 500, 501}

PageCall ==
    /\ \E since \in PageArguments, limit \in PageArguments :
          env' = [env EXCEPT !.called = TRUE, !.since = since, !.limit = limit,
                            !.page = ledgerPage(env.snapshot, env.entries, since, limit)]
    /\ UNCHANGED <<fs, now, authMode, lock, resolved, pc, local, ret, calls, acked, race,
                   rot, gate>>

InitPages ==
    /\ fs = ensureDataFiles([p \in Paths |-> NoFile], DATA, OldPass, 0)
    /\ now = 0
    /\ authMode = "none"
    /\ lock = 0
    /\ resolved = {0}
    /\ pc = [c \in Callers |-> "idle"]
    /\ local = [c \in Callers |-> NoLocal]
    /\ ret = NoReturn
    /\ calls = 0
    /\ acked = 0
    /\ race = NoRace
    /\ rot = NoRotation
    /\ gate = NoGate
    /\ \E n \in JournalLengths :
       \E cursor \in {0, n} :
          env = [kind |-> "pages", called |-> FALSE, since |-> 0, limit |-> 0,
                 page |-> NoLocal,
                 entries |-> [i \in 1..n |-> [cursor |-> i, new_version |-> i]],
                 snapshot |-> [uid |-> UID, schema_version |-> SCHEMA_VERSION,
                               memory |-> [emptyMemory(0) EXCEPT !.version = cursor],
                               snapshot_cursor |-> cursor, updated_at |-> 0]]

NextPages == PageCall

SpecPages == InitPages /\ [][NextPages]_vars

(***************************************************************************)
(* encryptEnvelope and decryptEnvelope on their own: a payload, a          *)
(* passphrase, an info and an AAD context are sealed, and the envelope is  *)
(* opened with a passphrase and an expected info.                          *)
(*                                                                         *)
(*   env.pc   "input", "sealed", "opened"                                  *)
(*   env.payload, env.passphrase, env.info, env.aad   what is sealed       *)
(*   env.envelope   the envelope                                           *)
(*   env.openPassphrase, env.openInfo   what it is opened with             *)
(*   env.res  what decryptEnvelope returned                                *)
(***************************************************************************)
CodecSnapshots ==
    {[uid |-> UID, schema_version |-> SCHEMA_VERSION,
      memory |-> [emptyMemory(0) EXCEPT !.version = n],
      snapshot_cursor |-> n, updated_at |-> 0] : n \in 0..1}

CodecEntries ==
    {newEntry(<<>>, [memory |-> emptyMemory(0)],
              [patch |-> patch, actor |-> "agent", reason |-> "why", auth |-> "none"], 0) :
        patch \in {AddIdentity, RemoveExtra}}

CodecPayloads == CodecSnapshots \cup CodecEntries

CodecContexts ==
    {vaultAAD(snapshot) : snapshot \in CodecSnapshots}
        \cup {ledgerAAD(entry) : entry \in CodecEntries}

Infos == {"vault", "ledger"}

Seal ==
    /\ env.pc = "input"
    /\ env' = [env EXCEPT !.pc = "sealed",
                          !.envelope = encryptEnvelope(env.payload, env.passphrase,
                                                       env.info, env.aad)]
    /\ UNCHANGED <<fs, now, authMode, lock, resolved, pc, local, ret, calls, acked, race,
                   rot, gate>>

Open ==
    /\ env.pc = "sealed"
    /\ \E passphrase \in {OldPass, NewPass}, expectedInfo \in Infos :
          env' = [env EXCEPT !.pc = "opened", !.openPassphrase = passphrase,
                            !.openInfo = expectedInfo,
                            !.res = decryptEnvelope(env.envelope, passphrase, expectedInfo)]
    /\ UNCHANGED <<fs, now, authMode, lock, resolved, pc, local, ret, calls, acked, race,
                   rot, gate>>

InitCodec ==
    /\ fs = ensureDataFiles([p \in Paths |-> NoFile], DATA, OldPass, 0)
    /\ now = 0
    /\ authMode = "none"
    /\ lock = 0
    /\ resolved = {0}
    /\ pc = [c \in Callers |-> "idle"]
    /\ local = [c \in Callers |-> NoLocal]
    /\ ret = NoReturn
    /\ calls = 0
    /\ acked = 0
    /\ race = NoRace
    /\ rot = NoRotation
    /\ gate = NoGate
    /\ \E payload \in CodecPayloads, passphrase \in {OldPass, NewPass}, info \in Infos,
          aad \in CodecContexts :
          env = [kind |-> "codec", pc |-> "input", payload |-> payload,
                 passphrase |-> passphrase, info |-> info, aad |-> aad,
                 envelope |-> NoLocal, openPassphrase |-> passphrase, openInfo |-> info,
                 res |-> NoLocal]

NextCodec ==
    \/ Seal
    \/ Open

SpecCodec == InitCodec /\ [][NextCodec]_vars

(***************************************************************************)
(* The engine on a directory that something else than the engine also      *)
(* wrote, once: a writer that holds the passphrase and appends an entry    *)
(* with contiguous cursor and intact hash chain whose base_version is not  *)
(* the current version (and may then write a snapshot at the end of that   *)
(* journal), or a vault.enc or a journal line replaced by a JSON value     *)
(* that is not an envelope.                                                *)
(*                                                                         *)
(*   env.foreign  "none", "append", "compact", "cursor", "prev_hash",      *)
(*                "entry_hash", "ahead", "vault" or "line"                 *)
(*   env.line     the journal line replaced, for "line"                    *)
(***************************************************************************)
ForeignPatch ==
    /\ calls < MaxCalls
    /\ \E ifMatchHeader \in IfMatchInputs, patch \in {AddThenTestExtra, RemoveExtra} :
       \E done \in {patchMemoryCall(fs, DATA, OldPass, ifMatchHeader,
                                    [patch |-> patch, actor |-> "agent", reason |-> "why",
                                     auth |-> authMode,
                                     baseVersion |-> parseIfMatch(ifMatchHeader)], now)} :
          /\ fs' = done.files
          /\ acked' = IF done.res.ok THEN acked + 1 ELSE acked
    /\ calls' = calls + 1
    /\ UNCHANGED <<now, authMode, lock, resolved, pc, local, ret, race, rot, gate, env>>

ForeignSnapshot ==
    /\ calls < MaxCalls
    /\ \E done \in {snapshotCall(fs, DATA, OldPass, now)} : fs' = done.files
    /\ calls' = calls + 1
    /\ UNCHANGED <<now, authMode, lock, resolved, pc, local, ret, acked, race, rot, gate,
                   env>>

ForeignAppend ==
    /\ env.foreign = "none"
    /\ \E state \in {getCurrentState(fs, DATA, OldPass, now)},
          ledger \in {readLedgerEntries(fs, DATA, OldPass)} :
          /\ state.ok
          /\ Len(ledger.entries) = Len(fs[<<DATA, LEDGER>>].data)
          /\ fs' = appendLedgerEntry(fs, DATA, OldPass,
                       newEntry(ledger.entries,
                                [memory |-> [version |-> state.state.memory.version + 1]],
                                [patch |-> AddThenTestExtra, actor |-> "agent",
                                 reason |-> "why", auth |-> "none"], now))
    /\ env' = [env EXCEPT !.foreign = "append"]
    /\ UNCHANGED <<now, authMode, lock, resolved, pc, local, ret, calls, acked, race, rot,
                   gate>>

ForeignCompact ==
    /\ env.foreign = "append"
    /\ \E vault \in {readVault(fs, DATA, OldPass)},
          ledger \in {readLedgerEntries(fs, DATA, OldPass)} :
          /\ vault.ok
          /\ ledger.ok
          /\ fs' = [fs EXCEPT ![<<DATA, VAULT>>] =
                       writeVault([vault.snapshot EXCEPT
                                     !.snapshot_cursor = Len(ledger.entries),
                                     !.memory.version =
                                         ledger.entries[Len(ledger.entries)].new_version],
                                  OldPass)]
    /\ env' = [env EXCEPT !.foreign = "compact"]
    /\ UNCHANGED <<now, authMode, lock, resolved, pc, local, ret, calls, acked, race, rot,
                   gate>>

(***************************************************************************)
(* The other writer appends an entry for the current version that breaks   *)
(* the chain in one way: its cursor skips one, its prev_hash is not the    *)
(* entry_hash of the entry before it, or its entry_hash is not the hash of *)
(* its fields.  Or it writes a snapshot whose snapshot_cursor is one more  *)
(* than the journal has entries.                                           *)
(***************************************************************************)
ForeignBreak ==
    /\ env.foreign = "none"
    /\ \E state \in {getCurrentState(fs, DATA, OldPass, now)},
          ledger \in {readLedgerEntries(fs, DATA, OldPass)},
          break \in {"cursor", "prev_hash", "entry_hash"} :
       \E entry \in {newEntry(ledger.entries, state.state,
                              [patch |-> AddThenTestExtra, actor |-> "agent",
                               reason |-> "why", auth |-> "none"], now)} :
       \E base \in {IF break = "cursor" THEN [hashInput(entry) EXCEPT !.cursor = @ + 1]
                    ELSE IF break = "prev_hash"
                    THEN [hashInput(entry) EXCEPT !.prev_hash = sha256Hex(<<>>)]
                    ELSE hashInput(entry)} :
          /\ state.ok
          /\ Len(ledger.entries) = Len(fs[<<DATA, LEDGER>>].data)
          /\ fs' = appendLedgerEntry(fs, DATA, OldPass,
                       [k \in DOMAIN base \cup {"entry_hash"} |->
                           IF k # "entry_hash" THEN base[k]
                           ELSE IF break = "entry_hash" THEN sha256Hex(<<>>)
                           ELSE computeEntryHash(base)])
          /\ env' = [env EXCEPT !.foreign = break]
    /\ UNCHANGED <<now, authMode, lock, resolved, pc, local, ret, calls, acked, race, rot,
                   gate>>

ForeignAhead ==
    /\ env.foreign = "none"
    /\ \E vault \in {readVault(fs, DATA, OldPass)} :
          /\ vault.ok
          /\ fs' = [fs EXCEPT ![<<DATA, VAULT>>] =
                       writeVault([vault.snapshot EXCEPT
                                     !.snapshot_cursor = Len(fs[<<DATA, LEDGER>>].data) + 1],
                                  OldPass)]
    /\ env' = [env EXCEPT !.foreign = "ahead"]
    /\ UNCHANGED <<now, authMode, lock, resolved, pc, local, ret, calls, acked, race, rot,
                   gate>>

MalformVault ==
    /\ env.foreign = "none"
    /\ fs' = [fs EXCEPT ![<<DATA, VAULT>>] = File([@.data EXCEPT !.v = 2])]
    /\ env' = [env EXCEPT !.foreign = "vault"]
    /\ UNCHANGED <<now, authMode, lock, resolved, pc, local, ret, calls, acked, race, rot,
                   gate>>

MalformLine ==
    /\ env.foreign = "none"
    /\ \E line \in 1..Len(fs[<<DATA, LEDGER>>].data) :
          /\ fs' = [fs EXCEPT ![<<DATA, LEDGER>>] =
                       File([@.data EXCEPT ![line] = [@ EXCEPT !.v = 2]])]
          /\ env' = [env EXCEPT !.foreign = "line", !.line = line]
    /\ UNCHANGED <<now, authMode, lock, resolved, pc, local, ret, calls, acked, race, rot,
                   gate>>

InitForeign ==
    /\ fs = ensureDataFiles([p \in Paths |-> NoFile], DATA, OldPass, 0)
    /\ now = 0
    /\ authMode \in Auths
    /\ lock = 0
    /\ resolved = {0}
    /\ pc = [c \in Callers |-> "idle"]
    /\ local = [c \in Callers |-> NoLocal]
    /\ ret = NoReturn
    /\ calls = 0
    /\ acked = 0
    /\ race = NoRace
    /\ rot = NoRotation
    /\ gate = NoGate
    /\ env = [kind |-> "foreign", foreign |-> "none", line |-> 0]

NextForeign ==
    \/ ForeignPatch
    \/ ForeignSnapshot
    \/ ForeignAppend
    \/ ForeignCompact
    \/ ForeignBreak
    \/ ForeignAhead
    \/ MalformVault
    \/ MalformLine

SpecForeign == InitForeign /\ [][NextForeign]_vars

(***************************************************************************)
(* PATCH /v1/memory with each of its headers present, empty or absent, on  *)
(* a server with or without a write token.                                 *)
(*                                                                         *)
(*   env.writeToken   the LMV_WRITE_TOKEN configuration                    *)
(*   env.handled      a request was answered                               *)
(*   env.request      the last request                                     *)
(*   env.status       the status of its response                           *)
(*   env.before       the files when it arrived                            *)
(***************************************************************************)
WriteRequestInputs ==
    [authorization : {Absent, Present(BEARER \o <<" ", "t", "k">>)},
     contentType : {Absent, Present("application/json-patch+json"),
                    Present("application/json")},
     ifMatch : {Absent, Present(etagForVersion(0)), Present(etagForVersion(1))},
     actor : {Absent, Present(""), Present("agent")},
     reason : {Absent, Present(""), Present("why")},
     body : {AddThenTestExtra}]

WriteRequest ==
    /\ calls < MaxWrites
    /\ \E request \in WriteRequestInputs :
       \E reply \in {patchHandler(fs, request, env.writeToken, now)} :
          /\ fs' = reply.files
          /\ calls' = IF reply.files = fs THEN calls ELSE calls + 1
          /\ env' = [env EXCEPT !.handled = TRUE, !.request = request,
                                !.status = reply.status, !.before = fs]
    /\ UNCHANGED <<now, authMode, lock, resolved, pc, local, ret, acked, race, rot, gate>>

InitWrites ==
    /\ fs = ensureDataFiles([p \in Paths |-> NoFile], DATA, OldPass, 0)
    /\ now = 0
    /\ authMode = "none"
    /\ lock = 0
    /\ resolved = {0}
    /\ pc = [c \in Callers |-> "idle"]
    /\ local = [c \in Callers |-> NoLocal]
    /\ ret = NoReturn
    /\ calls = 0
    /\ acked = 0
    /\ race = NoRace
    /\ rot = NoRotation
    /\ gate = NoGate
    /\ \E writeToken \in {Absent, Present(<<"t", "k">>)} :
          env = [kind |-> "writes", writeToken |-> writeToken, handled |-> FALSE,
                 request |-> NoLocal, status |-> 0, before |-> fs]

NextWrites == WriteRequest

SpecWrites == InitWrites /\ [][NextWrites]_vars

(***************************************************************************)
(* The state a reader assembles from the files as they are now.            *)
(***************************************************************************)
Current == getCurrentState(fs, DATA, OldPass, now)

(***************************************************************************)
(* The snapshot initialize() writes on the empty directory.                *)
(***************************************************************************)
GenesisSnapshot ==
    [uid |-> UID, schema_version |-> SCHEMA_VERSION, memory |-> emptyMemory(0),
     snapshot_cursor |-> 0, updated_at |-> 0]

(***************************************************************************)
(* C1: of two or more patchMemory calls, each with an applicable patch and *)
(* the If-Match of the current version, issued before any of them          *)
(* returned, exactly one succeeds and every other fails with               *)
(* ConflictError.                                                          *)
(***************************************************************************)
ConcurrentWriteExclusion ==
    (/\ Cardinality(race.members) >= 2
     /\ \A c \in race.members : race.outcome[c] # "pending")
    => /\ Cardinality({c \in race.members : race.outcome[c] = "ok"}) = 1
       /\ \A c \in race.members : race.outcome[c] \in {"ok", "ConflictError"}

(***************************************************************************)
(* C2: a patchMemory call that reaches the version check with an If-Match  *)
(* other than the current memory version throws ConflictError: the         *)
(* response has status 409, the ETag of the current version as its ETag    *)
(* header and as current_etag in its body, and the files are unchanged.    *)
(***************************************************************************)
StalePatch(c) ==
    /\ pc[c] = "commit"
    /\ local[c].op = "patch"
    /\ Current.ok
    /\ local[c].baseVersion # Current.state.memory.version

StalePreconditionConflicts ==
    [][\A c \in Callers :
          (StalePatch(c) /\ pc'[c] = "idle")
          => /\ ret'.caller = c
             /\ ~ret'.res.ok
             /\ ret'.res.error.kind = "ConflictError"
             /\ errorHandler(ret'.res.error).status = 409
             /\ errorHandler(ret'.res.error).headers.ETag
                    = etagForVersion(Current.state.memory.version)
             /\ errorHandler(ret'.res.error).body.current_etag
                    = etagForVersion(Current.state.memory.version)
             /\ fs' = fs]_vars

StalePreconditionWitness ==
    /\ ret.op = "patch"
    /\ ~ret.res.ok
    /\ ret.res.error.kind = "ConflictError"
    /\ Current.ok
    /\ Current.state.memory.version > 0
    /\ ret.call.baseVersion # Current.state.memory.version
    /\ errorHandler(ret.res.error).headers.ETag
           = etagForVersion(Current.state.memory.version)

(***************************************************************************)
(* C3: the version getCurrentState returns and the journal length it       *)
(* returns both equal the number of patchMemory calls that succeeded.      *)
(***************************************************************************)
VersionCountsSuccessfulPatches ==
    /\ Current.ok
    /\ Current.state.memory.version = acked
    /\ Current.state.ledger_cursor = acked

(***************************************************************************)
(* C4: in the journal the patches produced, every entry's entry_hash is    *)
(* the hash recomputed from the entry without entry_hash, the first        *)
(* prev_hash is empty and every later prev_hash is the entry_hash of the   *)
(* entry before.                                                           *)
(***************************************************************************)
HashChainInvariant ==
    LET entries == ledgerLines(fs, DATA)
    IN  \A k \in 1..Len(entries) :
           /\ entries[k].entry_hash = computeEntryHash(hashInput(entries[k]))
           /\ entries[k].prev_hash =
                  (IF k = 1 THEN EMPTY_HASH ELSE entries[k - 1].entry_hash)

(***************************************************************************)
(* C5: the journal's cursors are 1, 2, 3, ... and every entry has          *)
(* new_version = base_version + 1 with base_version the new_version of the *)
(* entry before (0 for the first).                                         *)
(***************************************************************************)
CursorsDenseVersionsContinuous ==
    LET entries == ledgerLines(fs, DATA)
    IN  \A k \in 1..Len(entries) :
           /\ entries[k].cursor = k
           /\ entries[k].new_version = entries[k].base_version + 1
           /\ entries[k].base_version =
                  (IF k = 1 THEN 0 ELSE entries[k - 1].new_version)

(***************************************************************************)
(* C9: the files a snapshot() compaction is about to write assemble to the *)
(* memory (version, blocks, updated_at) and the ledger_cursor that         *)
(* getCurrentState returns before it, and the memory assembled from the    *)
(* snapshot and the entries beyond it is always the memory a replay of the *)
(* whole journal from the genesis snapshot gives.                          *)
(***************************************************************************)
AfterCompaction(c) ==
    getCurrentState(takeSnapshot(fs, DATA, OldPass, local[c].snapshot,
                                 local[c].entries, now).files,
                    DATA, OldPass, now)

FullReplay ==
    LET ledger == readLedgerEntries(fs, DATA, OldPass)
    IN  IF ledger.ok THEN replayLedger(GenesisSnapshot, ledger.entries) ELSE ledger

ReplayEquivalence ==
    /\ \A c \in Callers :
          (pc[c] = "commit" /\ local[c].op = "snapshot" /\ Current.ok)
          => /\ AfterCompaction(c).ok
             /\ AfterCompaction(c).state.memory = Current.state.memory
             /\ AfterCompaction(c).state.ledger_cursor = Current.state.ledger_cursor
    /\ Current.ok
       => /\ FullReplay.ok
          /\ FullReplay.state.memory = Current.state.memory
          /\ FullReplay.state.ledger_cursor = Current.state.ledger_cursor

ReplayEquivalenceWitness ==
    /\ Current.ok
    /\ Current.state.snapshot_cursor > 0
    /\ Current.state.ledger_cursor > Current.state.snapshot_cursor
    /\ Current.state.memory.updated_at > 0

(***************************************************************************)
(* The state the engine had when the rotation loaded it.                   *)
(***************************************************************************)
BeforeRotation == replayLedger(rot.snapshot, rot.entries)

(***************************************************************************)
(* C6: when the rotation has ended, with success or with the error of a    *)
(* failed step of its try block, the data directory holds either the three *)
(* staged files, which verify under the new passphrase, or the three       *)
(* original files, which verify under the old one.                         *)
(***************************************************************************)
RotationAllOrNothing ==
    rot.pc \in {"done", "failed"}
    => \/ /\ DataFiles(fs) = rot.staged
          /\ Verifies(fs, DATA, NewPass, now)
       \/ /\ DataFiles(fs) = rot.original
          /\ Verifies(fs, DATA, OldPass, now)

(***************************************************************************)
(* C7: when the rotation was killed after it renamed the first original    *)
(* file to its backup and before it unlinked the last backup, opening the  *)
(* data directory with the old passphrase verifies and gives the memory    *)
(* the engine had before the rotation.                                     *)
(***************************************************************************)
RotationCrashSafe ==
    (/\ rot.pc = "crashed"
     /\ Len(rot.backupMap) >= 1
     /\ \E f \in FileNames : fs[<<"bak", f>>].exists)
    => /\ Verifies(fs, DATA, OldPass, now)
       /\ getCurrentState(fs, DATA, OldPass, now).state.memory
              = BeforeRotation.state.memory

(***************************************************************************)
(* C8: after a rotation that ended with success, the new passphrase gives  *)
(* verifyLedger success and the memory, the snapshot_cursor and the        *)
(* journal entries the old passphrase gave before; with the old passphrase *)
(* getCurrentState and getLedger fail with StorageCorruptionError, and so  *)
(* does verifyLedger when the journal has two or more entries.             *)
(***************************************************************************)
RoundTripUnderNewPassphrase ==
    /\ verifyLedger(fs, DATA, NewPass, now).ok
    /\ verifyLedger(fs, DATA, NewPass, now).entries = Len(rot.entries)
    /\ getCurrentState(fs, DATA, NewPass, now).ok
    /\ getCurrentState(fs, DATA, NewPass, now).state.memory = BeforeRotation.state.memory
    /\ getCurrentState(fs, DATA, NewPass, now).state.snapshot_cursor
           = rot.snapshot.snapshot_cursor
    /\ readLedgerEntries(fs, DATA, NewPass).entries = rot.entries

FailsWithCorruption(result) ==
    /\ ~result.ok
    /\ result.error.kind = "StorageCorruptionError"

MaxPad == 3

Pads == UNION {[1..n -> WhiteSpace] : n \in 0..MaxPad}

Carries(authorization, token) ==
    /\ authorization.present
    /\ \E lead \in Pads, separator \in Pads, trail \in Pads :
          /\ Len(separator) >= 1
          /\ authorization.value = lead \o BEARER \o separator \o token \o trail

Configured(writeToken) == writeToken.present /\ Len(writeToken.value) > 0

Presentable(token) == token[1] \notin WhiteSpace /\ token[Len(token)] \notin WhiteSpace

GatedRequest == gate.method \in {"PATCH", "POST"}

(***************************************************************************)
(* The gate as the server applies it.  With a write token configured that  *)
(* neither begins nor ends with white space, PATCH /v1/memory and          *)
(* POST /v1/snapshot are answered 401 exactly when the Authorization       *)
(* header does not carry that token (absent, malformed or another token);  *)
(* a configured token that begins or ends with white space gets 401 on     *)
(* every write; a 401 leaves the files as they were; with no token         *)
(* configured no write is answered 401, and a GET never is.                *)
(***************************************************************************)
WriteGate ==
    gate.decided =>
       /\ gate.status = 401 =>
             GatedRequest /\ Configured(gate.writeToken) /\ gate.unchanged
       /\ GatedRequest /\ Configured(gate.writeToken) =>
             IF Presentable(gate.writeToken.value)
             THEN gate.status = 401 <=>
                     ~Carries(gate.authorization, gate.writeToken.value)
             ELSE gate.status = 401

WriteGateWitness ==
    /\ gate.decided
    /\ gate.method = "PATCH"
    /\ gate.writeToken = Present(<<"t", "k">>)
    /\ gate.authorization = Present(BEARER \o <<" ", "T", "k">>)
    /\ gate.status = 401
    /\ gate.unchanged

(***************************************************************************)
(* C10 - Write gate: with a write token configured, PATCH /v1/memory and   *)
(* POST /v1/snapshot are answered 401, the files unchanged, exactly when   *)
(* the Authorization header does not carry the token (absent, malformed or *)
(* another token), so that a request with the exact token is admitted;     *)
(* with no token configured no write is answered 401, and a GET never is.  *)
(***************************************************************************)
WriteGateEveryToken ==
    gate.decided =>
       /\ gate.status = 401 =>
             GatedRequest /\ Configured(gate.writeToken) /\ gate.unchanged
       /\ GatedRequest /\ Configured(gate.writeToken) =>
             (gate.status = 401 <=>
                 ~Carries(gate.authorization, gate.writeToken.value))

(***************************************************************************)
(* The characters of the strings a journal entry holds, as JSON.stringify  *)
(* writes them, and whether one character sequence occurs in another.      *)
(***************************************************************************)
Chars(text) ==
    CASE text = "" -> <<>>
      [] text = "agent" -> <<"a", "g", "e", "n", "t">>
      [] text = "unknown" -> <<"u", "n", "k", "n", "o", "w", "n">>
      [] text = "why" -> <<"w", "h", "y">>
      [] text = "unspecified" -> <<"u", "n", "s", "p", "e", "c", "i", "f", "i", "e", "d">>
      [] text = "none" -> <<"n", "o", "n", "e">>
      [] text = "token" -> <<"t", "o", "k", "e", "n">>
      [] text = "add" -> <<"a", "d", "d">>
      [] text = "test" -> <<"t", "e", "s", "t">>
      [] text = "remove" -> <<"r", "e", "m", "o", "v", "e">>
      [] text = "/extra" -> <<"/", "e", "x", "t", "r", "a">>
      [] text = "A" -> <<"A">>
      [] text = "B" -> <<"B">>

Includes(text, token) ==
    \E i \in 0..(Len(text) - Len(token)) : SubSeq(text, i + 1, i + Len(token)) = token

EntryTexts(entry) ==
    {Chars(entry.actor), Chars(entry.reason), Chars(entry.auth)}
    \cup UNION {{Chars(entry.patch[k].op), Chars(entry.patch[k].path)}
                \cup (IF "value" \in DOMAIN entry.patch[k]
                      THEN {Chars(entry.patch[k].value)} ELSE {}) :
                k \in 1..Len(entry.patch)}

(***************************************************************************)
(* C11 - Audit marker: every journal entry appended through the request    *)
(* surface has auth "token" when a write token is configured and "none"    *)
(* when none is, and the token value occurs in none of the strings the     *)
(* entry holds.                                                            *)
(***************************************************************************)
AuditMarker ==
    \A i \in DOMAIN ledgerLines(fs, DATA) :
       /\ ledgerLines(fs, DATA)[i].auth
             = IF Configured(gate.writeToken) THEN "token" ELSE "none"
       /\ Configured(gate.writeToken)
          => \A text \in EntryTexts(ledgerLines(fs, DATA)[i]) :
                ~Includes(text, gate.writeToken.value)

AuditMarkerWitness ==
    /\ Configured(gate.writeToken)
    /\ gate.decided
    /\ gate.method = "PATCH"
    /\ gate.status = 200
    /\ Len(ledgerLines(fs, DATA)) >= 1
    /\ ledgerLines(fs, DATA)[Len(ledgerLines(fs, DATA))].auth = "token"

(***************************************************************************)
(* The lines of the journal that do not decode, by position.               *)
(***************************************************************************)
Undecodable ==
    {i \in 1..Len(fs[<<DATA, LEDGER>>].data) :
        ~decodeLine(fs[<<DATA, LEDGER>>].data[i], OldPass).ok}

(***************************************************************************)
(* C12 - Journal crash-recovery rule: when a line other than the last does *)
(* not decode, reading the journal fails with StorageCorruptionError; when *)
(* only the last line does not decode, the read succeeds and returns the   *)
(* entries of the lines before it.                                         *)
(***************************************************************************)
CrashRecoveryRule ==
    /\ (\E i \in Undecodable : i < Len(fs[<<DATA, LEDGER>>].data))
       => /\ ~readLedgerEntries(fs, DATA, OldPass).ok
          /\ readLedgerEntries(fs, DATA, OldPass).error.kind = "StorageCorruptionError"
          /\ ~verifyLedger(fs, DATA, OldPass, now).ok
    /\ Undecodable = {Len(fs[<<DATA, LEDGER>>].data)}
       => /\ readLedgerEntries(fs, DATA, OldPass).ok
          /\ readLedgerEntries(fs, DATA, OldPass).entries
                = [i \in 1..(Len(fs[<<DATA, LEDGER>>].data) - 1) |->
                      decodeLine(fs[<<DATA, LEDGER>>].data[i], OldPass).entry]

CrashRecoveryRuleWitness ==
    /\ Len(fs[<<DATA, LEDGER>>].data) >= 2
    /\ Undecodable = {Len(fs[<<DATA, LEDGER>>].data)}
    /\ readLedgerEntries(fs, DATA, OldPass).ok
    /\ Len(readLedgerEntries(fs, DATA, OldPass).entries) = Len(fs[<<DATA, LEDGER>>].data) - 1

(***************************************************************************)
(* C13 - Blast radius of a torn append: once the journal ends in a cut-off *)
(* line (with or without its line feed) and nothing else was changed on    *)
(* disk, state assembly succeeds after any further patches, and the state  *)
(* it returns has at least the version of every patch reported successful  *)
(* since.                                                                  *)
(***************************************************************************)
TornBlastRadius ==
    (env.torn /\ env.tamper = NoTamper)
    => /\ Current.ok
       /\ Current.state.memory.version >= env.reported

(***************************************************************************)
(* The files with the last line of the journal taken away.                 *)
(***************************************************************************)
WithoutLastLine ==
    [fs EXCEPT ![<<DATA, LEDGER>>] = File(SubSeq(@.data, 1, Len(@.data) - 1))]

TamperedLastLine ==
    /\ env.tamper.where = LEDGER
    /\ env.tamper.line = Len(fs[<<DATA, LEDGER>>].data)

(***************************************************************************)
(* C14 - Tamper detection: when the ciphertext, tag, IV, salt or AAD of    *)
(* the snapshot envelope, or of the envelope of a journal line other than  *)
(* the last, was changed, getCurrentState fails with                       *)
(* StorageCorruptionError.  A change to the envelope of the last line is   *)
(* not reported: when no other line is broken, getCurrentState gives what  *)
(* it gives for the journal without that line.                             *)
(***************************************************************************)
TamperDetectionExceptLastLine ==
    /\ (env.tamper # NoTamper /\ ~TamperedLastLine)
       => /\ ~Current.ok
          /\ Current.error.kind = "StorageCorruptionError"
    /\ (env.tamper # NoTamper /\ TamperedLastLine
           /\ Undecodable = {Len(fs[<<DATA, LEDGER>>].data)})
       => Current = getCurrentState(WithoutLastLine, DATA, OldPass, now)

TamperDetectionWitness ==
    /\ env.tamper # NoTamper
    /\ env.tamper.where = LEDGER
    /\ env.tamper.part = "salt"
    /\ env.tamper.line < Len(fs[<<DATA, LEDGER>>].data)
    /\ ~Current.ok
    /\ Current.error.kind = "StorageCorruptionError"

(***************************************************************************)
(* C14 as stated, for every envelope, the last journal line included: when *)
(* its ciphertext, tag, IV, salt or AAD was changed, getCurrentState fails *)
(* with StorageCorruptionError.                                            *)
(***************************************************************************)
TamperDetection ==
    env.tamper # NoTamper
    => /\ ~Current.ok
       /\ Current.error.kind = "StorageCorruptionError"

(***************************************************************************)
(* C15: a getCurrentState that runs without the lock while patches and     *)
(* compactions run never fails, and returns the memory after some number j *)
(* of applied patches, with snapshot_cursor <= ledger_cursor = j and j     *)
(* between the journal length when the read began and the journal length   *)
(* when it read the journal.                                               *)
(***************************************************************************)
MemoryAfter(j) ==
    replayLedger(GenesisSnapshot, SubSeq(ledgerLines(fs, DATA), 1, j))

ReaderConsistency ==
    env.rpc = "done"
    => /\ env.result.ok
       /\ env.result.state.ledger_cursor \in env.begin..env.end
       /\ env.result.state.snapshot_cursor <= env.result.state.ledger_cursor
       /\ MemoryAfter(env.result.state.ledger_cursor).ok
       /\ env.result.state.memory = MemoryAfter(env.result.state.ledger_cursor).state.memory

(***************************************************************************)
(* C16: after a crash at any point during a compaction, vault.enc is the   *)
(* complete previous snapshot or the complete new snapshot, and the state  *)
(* assembled after the restart has the memory of before the crash.         *)
(***************************************************************************)
AtomicSnapshotReplacement ==
    env.crashed = "write"
    => /\ fs[<<DATA, VAULT>>] \in {env.prev, env.next}
       /\ Current.ok
       /\ Current.state.memory = env.before.state.memory

(***************************************************************************)
(* C17: after a crash at any time, every entry a returned patchMemory      *)
(* reported is in the journal, and the state assembled next has a version  *)
(* at least the highest one reported.                                      *)
(***************************************************************************)
DurabilityOrdering ==
    (env.crashed # "no" /\ acked > 0)
    => /\ Len(fs[<<DATA, LEDGER>>].data) >= acked
       /\ \A i \in 1..acked : ~IsTorn(fs[<<DATA, LEDGER>>].data[i])
       /\ Current.ok
       /\ Current.state.memory.version >= env.reported

(***************************************************************************)
(* C18: after any sequence of successful patches the blocks of the memory  *)
(* hold all four reserved keys, and a well-formed patch whose result lacks *)
(* one of them fails with status 422 and appends nothing.                  *)
(***************************************************************************)
Before == getCurrentState(env.before, DATA, OldPass, now)

LacksReservedKey(blocks) == \E k \in ReservedKeys : blocks[k] = ABSENT

BlocksShape ==
    /\ Current.ok => ~LacksReservedKey(Current.state.memory.blocks)
    /\ (/\ env.called
        /\ patchMemoryRejects(env.ifMatch, env.patch).kind = "none"
        /\ Before.ok
        /\ parseIfMatch(env.ifMatch) = Before.state.memory.version
        /\ applyPatch(Before.state.memory.blocks, env.patch).ok
        /\ LacksReservedKey(applyPatch(Before.state.memory.blocks, env.patch).doc))
       => /\ ~env.res.ok
          /\ errorHandler(env.res.error).status = 422
          /\ fs = env.before

(***************************************************************************)
(* C19: a patch with an operation on /version or /updated_at is rejected   *)
(* with status 400, whatever the If-Match value and the current version,   *)
(* and appends nothing to the journal.                                     *)
(***************************************************************************)
NamesReservedPath(patch) ==
    \E i \in 1..Len(patch) : patch[i].path \in {"/version", "/updated_at"}

ReservedPaths ==
    (env.called /\ NamesReservedPath(env.patch))
    => /\ ~env.res.ok
       /\ errorHandler(env.res.error).status = 400
       /\ fs[<<DATA, LEDGER>>] = env.before[<<DATA, LEDGER>>]

(***************************************************************************)
(* C20: a patchMemory call that fails leaves the snapshot, the journal and *)
(* the metadata as they were, and getCurrentState returns after it what it *)
(* returned before; after any call the blocks assembled are those of       *)
(* before the call or those the whole patch gives, never those an initial  *)
(* part of the patch gives.                                                *)
(***************************************************************************)
FailedPatchChangesNothing ==
    /\ (env.called /\ ~env.res.ok)
       => /\ fs = env.before
          /\ Current = Before
    /\ (env.called /\ Before.ok /\ Current.ok)
       => \/ Current.state.memory.blocks = Before.state.memory.blocks
          \/ /\ applyPatch(Before.state.memory.blocks, env.patch).ok
             /\ Current.state.memory.blocks
                = applyPatch(Before.state.memory.blocks, env.patch).doc

FailedPatchWitness ==
    /\ env.called
    /\ ~env.res.ok
    /\ env.res.error.kind = "PatchApplyError"
    /\ env.patch = AddThenFailTest
    /\ Before.ok
    /\ Before.state.memory.version > 0
    /\ applyOperation(Before.state.memory.blocks, env.patch[1]).ok
    /\ applyOperation(Before.state.memory.blocks, env.patch[1]).doc
       # Before.state.memory.blocks

(***************************************************************************)
(* C21: snapshot() writes no file when ledger_cursor <= snapshot_cursor,   *)
(* else it replaces the snapshot with the current memory at                *)
(* snapshot_cursor = ledger_cursor; either way the journal is unchanged,   *)
(* the triple returned has snapshot_cursor = ledger_cursor =               *)
(* memory_version, and a second snapshot() right after it writes nothing   *)
(* and returns the same triple.                                            *)
(***************************************************************************)
CompactionSemantics ==
    (env.op = "snapshot" /\ env.res.ok)
    => /\ Before.ok
       /\ fs[<<DATA, LEDGER>>] = env.before[<<DATA, LEDGER>>]
       /\ fs[<<DATA, META>>] = env.before[<<DATA, META>>]
       /\ IF Before.state.ledger_cursor <= Before.state.snapshot_cursor
          THEN fs = env.before
          ELSE /\ readVault(fs, DATA, OldPass).ok
               /\ readVault(fs, DATA, OldPass).snapshot.memory = Before.state.memory
               /\ readVault(fs, DATA, OldPass).snapshot.snapshot_cursor
                  = Before.state.ledger_cursor
       /\ env.res.snapshot_cursor = env.res.ledger_cursor
       /\ env.res.ledger_cursor = env.res.memory_version
       /\ snapshotCall(fs, DATA, OldPass, now).files = fs
       /\ snapshotCall(fs, DATA, OldPass, now).res = env.res

CompactionWitness ==
    /\ env.op = "snapshot"
    /\ env.res.ok
    /\ env.res.snapshot_cursor = 2
    /\ Before.ok
    /\ Before.state.snapshot_cursor = 0
    /\ fs # env.before

(***************************************************************************)
(* C22: after any sequence of initialize, patches and compactions the      *)
(* snapshot in vault.enc has snapshot_cursor at most the number of journal *)
(* lines, and its memory version is the new_version of the journal entry   *)
(* at snapshot_cursor, or 0 when snapshot_cursor is 0.                     *)
(***************************************************************************)
PersistedSnapshot == fs[<<DATA, VAULT>>].data.sealed.payload

SnapshotInvariant ==
    /\ PersistedSnapshot.snapshot_cursor <= Len(ledgerLines(fs, DATA))
    /\ PersistedSnapshot.memory.version
       = IF PersistedSnapshot.snapshot_cursor = 0 THEN 0
         ELSE ledgerLines(fs, DATA)[PersistedSnapshot.snapshot_cursor].new_version

SnapshotInvariantWitness ==
    /\ PersistedSnapshot.snapshot_cursor = 1
    /\ Len(ledgerLines(fs, DATA)) = 2
    /\ ledgerLines(fs, DATA)[1].new_version = 1
    /\ env.op = "patch"
    /\ env.res.ok

(***************************************************************************)
(* C23: getLedger takes since as max(0, since) and limit within 1..500,    *)
(* returns the first `limit` entries with cursor > since in cursor order,  *)
(* whatever the snapshot covers, next_cursor = the cursor of the last      *)
(* entry returned, or since when none is, and has_more = TRUE exactly when *)
(* an entry with cursor > next_cursor exists.                              *)
(***************************************************************************)
SinceOf(since) == IF since < 0 THEN 0 ELSE since

LimitOf(limit) == IF limit < 1 THEN 1 ELSE IF limit > 500 THEN 500 ELSE limit

PageOf(since, limit) ==
    [k \in 1..Cardinality({i \in 1..Len(env.entries) :
                              /\ env.entries[i].cursor > SinceOf(since)
                              /\ env.entries[i].cursor <= SinceOf(since) + LimitOf(limit)})
        |-> env.entries[SinceOf(since) + k]]

PaginationResult ==
    env.called
    => /\ env.page.ok
       /\ env.page.entries = PageOf(env.since, env.limit)
       /\ env.page.next_cursor
          = IF Len(env.page.entries) > 0
            THEN env.page.entries[Len(env.page.entries)].cursor
            ELSE SinceOf(env.since)
       /\ env.page.has_more
          <=> \E i \in 1..Len(env.entries) : env.entries[i].cursor > env.page.next_cursor
       /\ env.page.snapshot_cursor = env.snapshot.snapshot_cursor
       /\ env.page.ledger_cursor = Len(env.entries)

PaginationWitness ==
    /\ env.called
    /\ env.limit = 501
    /\ env.since = 1
    /\ Len(env.entries) = LongJournal
    /\ env.snapshot.snapshot_cursor = LongJournal
    /\ Len(env.page.entries) = 500
    /\ env.page.has_more
    /\ env.page.next_cursor = 501

Discontinuous ==
    \E i \in 1..Len(ledgerLines(fs, DATA)) :
        ledgerLines(fs, DATA)[i].base_version
            # (IF i = 1 THEN 0 ELSE ledgerLines(fs, DATA)[i - 1].new_version)

BaseVersionContinuity ==
    (env.foreign \in {"none", "append", "compact"} /\ Discontinuous)
    => /\ ~verifyLedger(fs, DATA, OldPass, now).ok
       /\ verifyLedger(fs, DATA, OldPass, now).error.kind = "StorageCorruptionError"

(***************************************************************************)
(* C28: when vault.enc, or a journal line other than the last, holds a     *)
(* JSON value that is not an envelope, every read that decodes it fails    *)
(* with StorageCorruptionError (status 500), never with status 400 or any  *)
(* other kind.                                                             *)
(***************************************************************************)
IsCorruption(res) ==
    /\ ~res.ok
    /\ res.error.kind = "StorageCorruptionError"
    /\ errorHandler(res.error).status = 500

MalformedEnvelopeIsCorruption ==
    /\ env.foreign = "vault"
       => /\ IsCorruption(getCurrentState(fs, DATA, OldPass, now))
          /\ IsCorruption(getLedger(fs, DATA, OldPass, 0, 100, now))
    /\ (env.foreign = "line" /\ env.line < Len(fs[<<DATA, LEDGER>>].data))
       => /\ IsCorruption(getCurrentState(fs, DATA, OldPass, now))
          /\ IsCorruption(getLedger(fs, DATA, OldPass, 0, 100, now))
          /\ IsCorruption(verifyLedger(fs, DATA, OldPass, now))

(***************************************************************************)
(* C26: a PATCH /v1/memory that passes the write gate and lacks the        *)
(* X-LMV-Actor header, the X-LMV-Reason header or If-Match, or has a       *)
(* content type other than application/json-patch+json, is answered 400    *)
(* and appends nothing; no journal entry has a defaulted or empty actor or *)
(* reason.                                                                 *)
(***************************************************************************)
LacksWriteHeader(request) ==
    \/ ~request.actor.present
    \/ ~request.reason.present
    \/ ~request.ifMatch.present
    \/ parseContentType(request.contentType) # JSON_PATCH

RequiredWriteHeaders ==
    /\ (/\ env.handled
        /\ requireWriteAuth(env.request.authorization, env.writeToken).ok
        /\ LacksWriteHeader(env.request))
       => /\ env.status = 400
          /\ fs[<<DATA, LEDGER>>] = env.before[<<DATA, LEDGER>>]
    /\ \A i \in 1..Len(ledgerLines(fs, DATA)) :
          /\ ledgerLines(fs, DATA)[i].actor \notin {"", "unknown"}
          /\ ledgerLines(fs, DATA)[i].reason \notin {"", "unspecified"}

(***************************************************************************)
(* C27: the body of a response with status 500 is a generic message, with  *)
(* neither the message nor the details of the error behind it; responses   *)
(* with status 400, 401 and 409 carry the message of their error.          *)
(***************************************************************************)
MemoryReply == getMemoryHandler(fs, now)

LedgerReply == getLedgerHandler(fs, [since |-> Absent, limit |-> Absent], now)

WriteReply(authorization, contentType, ifMatch) ==
    patchHandler(fs, [authorization |-> authorization, contentType |-> contentType,
                      ifMatch |-> ifMatch, actor |-> Present("agent"),
                      reason |-> Present("why"), body |-> AddThenTestExtra],
                 Present(<<"t", "k">>), now)

StaleReply ==
    WriteReply(Present(BEARER \o <<" ", "t", "k">>), Present(JSON_PATCH),
               Present(etagForVersion(MaxCalls + 1)))

GenericCorruptionReport ==
    /\ MemoryReply.status = 500
       => /\ DOMAIN MemoryReply.body = {"error"}
          /\ MemoryReply.body.error # Current.error.message
    /\ LedgerReply.status = 500
       => /\ DOMAIN LedgerReply.body = {"error"}
          /\ LedgerReply.body.error
             # getLedger(fs, DATA, OldPass, 0, 100, now).error.message
    /\ StaleReply.status = 500
       => /\ DOMAIN StaleReply.body = {"error"}
          /\ StaleReply.body.error # Current.error.message
    /\ StaleReply.status = 409 => StaleReply.body.error = "Version conflict"
    /\ WriteReply(Absent, Present(JSON_PATCH), Present(etagForVersion(0))).status = 401
    /\ WriteReply(Absent, Present(JSON_PATCH), Present(etagForVersion(0))).body.error
       = requireWriteAuth(Absent, Present(<<"t", "k">>)).error.message
    /\ WriteReply(Present(BEARER \o <<" ", "t", "k">>), Absent,
                  Present(etagForVersion(0))).status = 400
    /\ WriteReply(Present(BEARER \o <<" ", "t", "k">>), Absent,
                  Present(etagForVersion(0))).body.error
       = "Content-Type must be application/json-patch+json"


(***************************************************************************)
(* storage.ts: the four operations that run under withLock, called on one  *)
(* instance by concurrent callers.  LockedCall is the synchronous prefix   *)
(* of withLock for any of them; the patch calls carry a well-formed patch  *)
(* and If-Match, so the checks before the lock pass.  rewriteEncryptedData *)
(* is given the plaintext the files hold at the call.                      *)
(***************************************************************************)
LockedOps == {"patch", "snapshot", "initialize", "rewrite"}

LockedInput(op, ifMatchHeader) ==
    IF op = "patch"
    THEN [op |-> op, patch |-> AddThenTestExtra, auth |-> authMode,
          baseVersion |-> parseIfMatch(ifMatchHeader),
          actor |-> "agent", reason |-> "why"]
    ELSE IF op = "rewrite"
    THEN [op |-> op, snapshot |-> readVault(fs, DATA, OldPass).snapshot,
          entries |-> readLedgerEntries(fs, DATA, OldPass).entries,
          meta |-> readMeta(fs, DATA, OldPass, now).meta]
    ELSE [op |-> op]

LockedCall(c) ==
    /\ pc[c] = "idle"
    /\ calls < MaxCalls
    /\ \E op \in LockedOps, ifMatchHeader \in {etagForVersion(0), etagForVersion(1)} :
       \E input \in {LockedInput(op, ifMatchHeader)} :
          local' = [local EXCEPT ![c] =
                       [k \in DOMAIN input \cup {"prior", "mine"} |->
                           IF k = "prior" THEN withLockPrior
                           ELSE IF k = "mine" THEN calls + 1
                           ELSE input[k]]]
    /\ lock' = calls + 1
    /\ pc' = [pc EXCEPT ![c] = "wait"]
    /\ calls' = calls + 1
    /\ ret' = NoReturn
    /\ UNCHANGED <<fs, now, authMode, resolved, acked, race, rot, gate, env>>

(***************************************************************************)
(* initialize(): the critical section is ensureDataFiles, entered at its   *)
(* mkdir and ended when the three files exist.                             *)
(***************************************************************************)
InitializeStep(c) ==
    /\ pc[c] = "wait"
    /\ local[c].op = "initialize"
    /\ withLockMayRun(c)
    /\ pc' = [pc EXCEPT ![c] = "ensure"]
    /\ ret' = NoReturn
    /\ UNCHANGED <<fs, now, authMode, lock, resolved, local, calls, acked, race, rot, gate, env>>

EnsureStep(c) ==
    /\ pc[c] = "ensure"
    /\ fs' = ensureDataFiles(fs, DATA, OldPass, now)
    /\ Return(c, [ok |-> TRUE])
    /\ UNCHANGED <<now, authMode, lock, calls, rot, gate, env>>

(***************************************************************************)
(* rewriteEncryptedData(): ensureDataFiles and the snapshot written, then  *)
(* the journal emptied and rewritten line by line and meta.json written.   *)
(***************************************************************************)
RewriteVaultStep(c) ==
    /\ pc[c] = "wait"
    /\ local[c].op = "rewrite"
    /\ withLockMayRun(c)
    /\ fs' = [ensureDataFiles(fs, DATA, OldPass, now) EXCEPT
                 ![<<DATA, VAULT>>] = writeVault(local[c].snapshot, OldPass)]
    /\ pc' = [pc EXCEPT ![c] = "rewriteLedger"]
    /\ ret' = NoReturn
    /\ UNCHANGED <<now, authMode, lock, resolved, local, calls, acked, race, rot, gate, env>>

RewriteLedgerStep(c) ==
    /\ pc[c] = "rewriteLedger"
    /\ fs' = rewriteEncryptedData(fs, DATA, OldPass, local[c].snapshot,
                                  local[c].entries, local[c].meta, now)
    /\ Return(c, [ok |-> TRUE])
    /\ UNCHANGED <<now, authMode, lock, calls, rot, gate, env>>

InitLock ==
    /\ fs = ensureDataFiles([p \in Paths |-> NoFile], DATA, OldPass, 0)
    /\ now = 0
    /\ authMode = "none"
    /\ lock = 0
    /\ resolved = {0}
    /\ pc = [c \in Callers |-> "idle"]
    /\ local = [c \in Callers |-> NoLocal]
    /\ ret = NoReturn
    /\ calls = 0
    /\ acked = 0
    /\ race = NoRace
    /\ rot = NoRotation
    /\ gate = NoGate
    /\ env = [kind |-> "lock"]

NextLock ==
    \/ \E c \in Callers : LockedCall(c)
    \/ \E c \in Callers : ReadVaultStep(c)
    \/ \E c \in Callers : ReadLedgerStep(c)
    \/ \E c \in Callers : CommitStep(c)
    \/ \E c \in Callers : InitializeStep(c)
    \/ \E c \in Callers : EnsureStep(c)
    \/ \E c \in Callers : RewriteVaultStep(c)
    \/ \E c \in Callers : RewriteLedgerStep(c)
    \/ Tick

SpecLock == InitLock /\ [][NextLock]_vars

(***************************************************************************)
(* The event loop runs the continuation of every settled promise, and each *)
(* file operation of a critical section completes: the next step of a call *)
(* that stays enabled is taken.                                            *)
(***************************************************************************)
CallStep(c) ==
    \/ ReadVaultStep(c)
    \/ ReadLedgerStep(c)
    \/ CommitStep(c)
    \/ InitializeStep(c)
    \/ EnsureStep(c)
    \/ RewriteVaultStep(c)
    \/ RewriteLedgerStep(c)

LockFairness == \A c \in Callers : WF_vars(CallStep(c))

SpecLockFair == InitLock /\ [][NextLock]_vars /\ LockFairness

(***************************************************************************)
(* examples/agent_client.ts: AgentClient against the server, while other   *)
(* writers patch and compact the same vault.  The example asks for pages   *)
(* of 100 entries; env.limit is the page size of the client, so that one   *)
(* pull can take several pages.                                            *)
(*                                                                         *)
(*   env.apc           "idle", "pull" (inside pullLedgerAndReplay),        *)
(*                     "retry" (before the second tryPatch), "failed"      *)
(*   env.localVersion, env.localBlocks, env.ledgerCursor   the fields      *)
(*   env.synced        the fields were set from a response of the server   *)
(*   env.patch         the patch of the pending patchWithConflictHandling  *)
(*   env.attempts      the calls of patchWithConflictHandling so far       *)
(*   env.from, env.wasSynced   ledgerCursor and synced when the pull began *)
(*   env.got           the entries of the pages of the pull                *)
(*   env.pages         the pages requested in the pull                     *)
(*   env.present       the journal lines when the last page was requested  *)
(*   env.hasMore       has_more of the last page                           *)
(*   env.at409         the files when the 409 was answered                 *)
(*   env.retryBefore   the files when the second tryPatch was sent         *)
(*   env.retried       the second tryPatch of the last call was sent       *)
(*   env.status        the status of the last PATCH response, 0 for none   *)
(***************************************************************************)
AgentLimits == {1, 2, 100}

tryPatch(files, localVersion, patch, t) ==
    patchHandler(files,
                 [authorization |-> Absent,
                  contentType |-> Present("application/json-patch+json"),
                  ifMatch |-> Present(<<QUOTE, "v">> \o DecimalString(localVersion)
                                      \o <<QUOTE>>),
                  actor |-> Present("agent"), reason |-> Present("why"),
                  body |-> patch],
                 Absent, t)

(* A faulty variant of replayPage: the version of the last entry is taken, *)
(* the patches are not applied.                                            *)
replayPageKeepsBlocks(localVersion, localBlocks, entries, i) ==
    [ok |-> TRUE,
     localVersion |-> IF Len(entries) = 0 THEN localVersion
                      ELSE entries[Len(entries)].new_version,
     localBlocks |-> localBlocks]

(* The for loop of pullLedgerAndReplay over the entries of one page. *)
RECURSIVE replayPage(_, _, _, _)
replayPage(localVersion, localBlocks, entries, i) ==
    IF i > Len(entries)
    THEN [ok |-> TRUE, localVersion |-> localVersion, localBlocks |-> localBlocks]
    ELSE IF entries[i].base_version # localVersion
    THEN [ok |-> FALSE, localVersion |-> localVersion, localBlocks |-> localBlocks]
    ELSE IF ~applyPatch(localBlocks, entries[i].patch).ok
    THEN [ok |-> FALSE, localVersion |-> localVersion, localBlocks |-> localBlocks]
    ELSE replayPage(entries[i].new_version,
                    applyPatch(localBlocks, entries[i].patch).doc, entries, i + 1)

AgentSync ==
    /\ env.apc = "idle"
    /\ \E reply \in {getMemoryHandler(fs, now)} :
          /\ fs' = reply.files
          /\ env' = IF reply.status # 200 THEN [env EXCEPT !.apc = "failed"]
                    ELSE [env EXCEPT !.localVersion = reply.body.memory.version,
                                     !.localBlocks = reply.body.memory.blocks,
                                     !.ledgerCursor = reply.body.ledger_cursor,
                                     !.synced = TRUE]
    /\ UNCHANGED <<now, authMode, lock, resolved, pc, local, ret, calls, acked, race, rot,
                   gate>>

(***************************************************************************)
(* patchWithConflictHandling up to the response of the first tryPatch: 409 *)
(* enters pullLedgerAndReplay, another error is thrown, success sets the   *)
(* fields from the body.                                                   *)
(***************************************************************************)
Patched(e, reply) ==
    IF reply.status = 200
    THEN [e EXCEPT !.apc = "idle", !.status = 200, !.synced = TRUE,
                   !.localVersion = reply.body.memory.version,
                   !.localBlocks = reply.body.memory.blocks,
                   !.ledgerCursor = reply.body.ledger_cursor]
    ELSE [e EXCEPT !.apc = "failed", !.status = reply.status]

AgentTryPatch ==
    /\ env.apc = "idle"
    /\ env.attempts < MaxWrites
    /\ \E patch \in {AddThenTestExtra, RemoveExtra} :
       \E reply \in {tryPatch(fs, env.localVersion, patch, now)} :
          /\ fs' = reply.files
          /\ env' = IF reply.status = 409
                    THEN [env EXCEPT !.apc = "pull", !.patch = patch, !.status = 409,
                                     !.retried = FALSE,
                                     !.attempts = @ + 1, !.from = env.ledgerCursor,
                                     !.wasSynced = env.synced, !.got = <<>>,
                                     !.pages = 0, !.at409 = fs]
                    ELSE Patched([env EXCEPT !.patch = patch, !.attempts = @ + 1,
                                             !.retried = FALSE], reply)
    /\ UNCHANGED <<now, authMode, lock, resolved, pc, local, ret, calls, acked, race, rot,
                   gate>>

(***************************************************************************)
(* One turn of the while loop of pullLedgerAndReplay: a page is requested  *)
(* from ledgerCursor, its entries are replayed, ledgerCursor becomes       *)
(* next_cursor and the loop goes on while has_more.                        *)
(***************************************************************************)
AgentPull ==
    /\ env.apc = "pull"
    /\ \E reply \in {getLedgerHandler(fs, [since |-> Present(DecimalString(env.ledgerCursor)),
                                           limit |-> Present(DecimalString(env.limit))],
                                      now)} :
          /\ fs' = reply.files
          /\ IF reply.status # 200
             THEN env' = [env EXCEPT !.apc = "failed", !.pages = @ + 1,
                                     !.present = Len(fs[<<DATA, LEDGER>>].data)]
             ELSE \E replayed \in {replayPage(env.localVersion, env.localBlocks,
                                              reply.body.entries, 1)} :
                     env' = [env EXCEPT
                                !.apc = IF ~replayed.ok THEN "failed"
                                        ELSE IF reply.body.has_more THEN "pull"
                                        ELSE "retry",
                                !.localVersion = replayed.localVersion,
                                !.localBlocks = replayed.localBlocks,
                                !.ledgerCursor = IF replayed.ok THEN reply.body.next_cursor
                                                 ELSE @,
                                !.got = @ \o reply.body.entries,
                                !.hasMore = reply.body.has_more,
                                !.pages = @ + 1,
                                !.present = Len(fs[<<DATA, LEDGER>>].data)]
    /\ UNCHANGED <<now, authMode, lock, resolved, pc, local, ret, calls, acked, race, rot,
                   gate>>

(***************************************************************************)
(* patchWithConflictHandling after the pull: the second tryPatch.          *)
(***************************************************************************)
AgentRetry ==
    /\ env.apc = "retry"
    /\ \E reply \in {tryPatch(fs, env.localVersion, env.patch, now)} :
          /\ fs' = reply.files
          /\ env' = Patched([env EXCEPT !.retryBefore = fs, !.retried = TRUE], reply)
    /\ UNCHANGED <<now, authMode, lock, resolved, pc, local, ret, calls, acked, race, rot,
                   gate>>

InitAgent ==
    /\ fs = ensureDataFiles([p \in Paths |-> NoFile], DATA, OldPass, 0)
    /\ now = 0
    /\ authMode = "none"
    /\ lock = 0
    /\ resolved = {0}
    /\ pc = [c \in Callers |-> "idle"]
    /\ local = [c \in Callers |-> NoLocal]
    /\ ret = NoReturn
    /\ calls = 0
    /\ acked = 0
    /\ race = NoRace
    /\ rot = NoRotation
    /\ gate = NoGate
    /\ \E limit \in AgentLimits :
          env = [kind |-> "agent", limit |-> limit, apc |-> "idle",
                 localVersion |-> 0, localBlocks |-> [k \in BlockKeys |-> ABSENT],
                 ledgerCursor |-> 0, synced |-> FALSE, patch |-> <<>>, attempts |-> 0,
                 from |-> 0, wasSynced |-> FALSE, got |-> <<>>, pages |-> 0,
                 present |-> 0, hasMore |-> FALSE, at409 |-> fs, retryBefore |-> fs,
                 retried |-> FALSE, status |-> 0]

NextAgent ==
    \/ StorePatch
    \/ StoreSnapshot
    \/ AgentSync
    \/ AgentTryPatch
    \/ AgentPull
    \/ AgentRetry

SpecAgent == InitAgent /\ [][NextAgent]_vars

(***************************************************************************)
(* ensureDataFiles on a data directory in which any of the three files may *)
(* be missing: the directory starts empty, the engine is initialized,      *)
(* patches and compacts, a file is removed from outside, time passes.      *)
(*                                                                         *)
(*   env.called   the last step was a run of ensureDataFiles, or time       *)
(*                passing after one                                        *)
(*   env.before   the files before that run                                *)
(*   env.at       the time of that run                                     *)
(***************************************************************************)
EnsureCall ==
    /\ fs' = ensureDataFiles(fs, DATA, OldPass, now)
    /\ env' = [env EXCEPT !.called = TRUE, !.before = fs, !.at = now]
    /\ UNCHANGED <<now, authMode, lock, resolved, pc, local, ret, calls, acked, race, rot,
                   gate>>

EnsureWrite ==
    /\ calls < MaxCalls
    /\ \A f \in FileNames : fs[<<DATA, f>>].exists
    /\ \E compact \in BOOLEAN :
       \E done \in {IF compact THEN snapshotCall(fs, DATA, OldPass, now)
                    ELSE patchMemoryCall(fs, DATA, OldPass, etagForVersion(acked),
                                         [patch |-> AddThenTestExtra, actor |-> "agent",
                                          reason |-> "why", auth |-> authMode,
                                          baseVersion |-> acked], now)} :
          /\ fs' = done.files
          /\ acked' = IF ~compact /\ done.res.ok THEN acked + 1 ELSE acked
    /\ calls' = calls + 1
    /\ env' = [env EXCEPT !.called = FALSE]
    /\ UNCHANGED <<now, authMode, lock, resolved, pc, local, ret, race, rot, gate>>

RemoveFile ==
    /\ \E f \in FileNames :
          /\ fs[<<DATA, f>>].exists
          /\ fs' = unlink(fs, <<DATA, f>>)
    /\ env' = [env EXCEPT !.called = FALSE]
    /\ UNCHANGED <<now, authMode, lock, resolved, pc, local, ret, calls, acked, race, rot,
                   gate>>

InitEnsure ==
    /\ fs = [p \in Paths |-> NoFile]
    /\ now = 0
    /\ authMode = "none"
    /\ lock = 0
    /\ resolved = {0}
    /\ pc = [c \in Callers |-> "idle"]
    /\ local = [c \in Callers |-> NoLocal]
    /\ ret = NoReturn
    /\ calls = 0
    /\ acked = 0
    /\ race = NoRace
    /\ rot = NoRotation
    /\ gate = NoGate
    /\ env = [kind |-> "ensure", called |-> FALSE, before |-> fs, at |-> 0]

NextEnsure ==
    \/ EnsureCall
    \/ EnsureWrite
    \/ RemoveFile
    \/ Tick

SpecEnsure == InitEnsure /\ [][NextEnsure]_vars

(***************************************************************************)
(* parseIfMatch and etagForVersion as functions of their argument: the     *)
(* argument of parseIfMatch is any short text over the characters of an    *)
(* entity tag, white space, a sign and a letter, optionally marked as a    *)
(* weak validator; the argument of etagForVersion is any version up to     *)
(* MaxVersion.                                                             *)
(*                                                                         *)
(*   env.text     the argument of parseIfMatch                             *)
(*   env.called   parseIfMatch has returned                                *)
(*   env.parsed   what it returned                                         *)
(*   env.version  the version env.text was formatted from, or NULL         *)
(***************************************************************************)
MaxText == 5
MaxVersion == 12

EtagChars == {QUOTE, "v", "0", "1", "-", " ", "a"}
EtagTexts == UNION {[1..n -> EtagChars] : n \in 0..MaxText}

EtagParse ==
    /\ ~env.called
    /\ env' = [env EXCEPT !.called = TRUE, !.parsed = parseIfMatch(env.text)]
    /\ UNCHANGED <<fs, now, authMode, lock, resolved, pc, local, ret, calls, acked, race,
                   rot, gate>>

EtagWeaken ==
    /\ ~env.called
    /\ Len(env.text) <= MaxText
    /\ env' = [env EXCEPT !.text = <<"W", "/">> \o env.text]
    /\ UNCHANGED <<fs, now, authMode, lock, resolved, pc, local, ret, calls, acked, race,
                   rot, gate>>

EtagFormat ==
    /\ ~env.called
    /\ \E version \in 0..MaxVersion :
          env' = [env EXCEPT !.called = TRUE, !.version = version,
                             !.text = etagForVersion(version),
                             !.parsed = parseIfMatch(etagForVersion(version))]
    /\ UNCHANGED <<fs, now, authMode, lock, resolved, pc, local, ret, calls, acked, race,
                   rot, gate>>

InitEtag ==
    /\ fs = [p \in Paths |-> NoFile]
    /\ now = 0
    /\ authMode = "none"
    /\ lock = 0
    /\ resolved = {0}
    /\ pc = [c \in Callers |-> "idle"]
    /\ local = [c \in Callers |-> NoLocal]
    /\ ret = NoReturn
    /\ calls = 0
    /\ acked = 0
    /\ race = NoRace
    /\ rot = NoRotation
    /\ gate = NoGate
    /\ \E text \in EtagTexts :
          env = [kind |-> "etag", text |-> text, called |-> FALSE, parsed |-> NULL,
                 version |-> NULL]

NextEtag ==
    \/ EtagParse
    \/ EtagWeaken
    \/ EtagFormat

SpecEtag == InitEtag /\ [][NextEtag]_vars

(***************************************************************************)
(* packages/lmv-client: LMVClient.applyWithRetry against the server, while *)
(* other writers patch and compact the same vault.  Every fetch is one     *)
(* step; the writers run between the fetches.                              *)
(*                                                                         *)
(*   env.retry, env.patch   the arguments of the call                      *)
(*   env.cpc       "idle", "loop" (before a PATCH), "reread" (in the catch *)
(*                 block, before getMemory), "returned", "thrown"          *)
(*   env.i         the loop variable                                       *)
(*   env.etag      memory.etag                                             *)
(*   env.lastErr   the status of lastErr, 0 for null                       *)
(*   env.statuses  the statuses of the PATCH responses, in order           *)
(*   env.reads     the calls of getMemory                                  *)
(*   env.outcome   "none"; "returned"; "conflict" (an LMVConflictError was *)
(*                 thrown); "error" (another error of a response, with its *)
(*                 status); "failed" (the Error applyWithRetry makes)      *)
(***************************************************************************)
MaxRetry == 3

(* LMVClient.patch without a write token. *)
clientPatch(files, patch, actor, reason, etag, t) ==
    patchHandler(files,
                 [authorization |-> Absent,
                  contentType |-> Present("application/json-patch+json"),
                  ifMatch |-> Present(etag),
                  actor |-> Present(actor), reason |-> Present(reason),
                  body |-> patch],
                 Absent, t)

(* The end of the for loop: the next turn, or throw lastErr ?? new Error. *)
LoopTurn(e) ==
    IF e.i < e.retry THEN [e EXCEPT !.cpc = "loop"]
    ELSE [e EXCEPT !.cpc = "thrown",
                   !.outcome = IF e.lastErr = 409 THEN [kind |-> "conflict", status |-> 409]
                               ELSE [kind |-> "failed", status |-> 0]]

ClientStart ==
    /\ env.cpc = "idle"
    /\ \E reply \in {getMemoryHandler(fs, now)} :
          /\ fs' = reply.files
          /\ env' = IF reply.status # 200
                    THEN [env EXCEPT !.cpc = "thrown", !.reads = @ + 1,
                                     !.outcome = [kind |-> "error", status |-> reply.status]]
                    ELSE LoopTurn([env EXCEPT !.reads = @ + 1, !.etag = reply.headers.ETag])
    /\ UNCHANGED <<now, authMode, lock, resolved, pc, local, ret, calls, acked, race, rot,
                   gate>>

ClientPatch ==
    /\ env.cpc = "loop"
    /\ \E reply \in {clientPatch(fs, env.patch, "agent", "why", env.etag, now)} :
          /\ fs' = reply.files
          /\ env' = IF reply.status = 200
                    THEN [env EXCEPT !.cpc = "returned", !.statuses = Append(@, 200),
                                     !.outcome = [kind |-> "returned", status |-> 200]]
                    ELSE IF reply.status = 409
                    THEN [env EXCEPT !.cpc = "reread", !.statuses = Append(@, 409),
                                     !.lastErr = 409]
                    ELSE [env EXCEPT !.cpc = "thrown", !.statuses = Append(@, reply.status),
                                     !.lastErr = reply.status,
                                     !.outcome = [kind |-> "error", status |-> reply.status]]
    /\ UNCHANGED <<now, authMode, lock, resolved, pc, local, ret, calls, acked, race, rot,
                   gate>>

ClientReread ==
    /\ env.cpc = "reread"
    /\ \E reply \in {getMemoryHandler(fs, now)} :
          /\ fs' = reply.files
          /\ env' = IF reply.status # 200
                    THEN [env EXCEPT !.cpc = "thrown", !.reads = @ + 1,
                                     !.outcome = [kind |-> "error", status |-> reply.status]]
                    ELSE LoopTurn([env EXCEPT !.reads = @ + 1, !.etag = reply.headers.ETag,
                                              !.i = @ + 1])
    /\ UNCHANGED <<now, authMode, lock, resolved, pc, local, ret, calls, acked, race, rot,
                   gate>>

InitClient ==
    /\ fs = ensureDataFiles([p \in Paths |-> NoFile], DATA, OldPass, 0)
    /\ now = 0
    /\ authMode = "none"
    /\ lock = 0
    /\ resolved = {0}
    /\ pc = [c \in Callers |-> "idle"]
    /\ local = [c \in Callers |-> NoLocal]
    /\ ret = NoReturn
    /\ calls = 0
    /\ acked = 0
    /\ race = NoRace
    /\ rot = NoRotation
    /\ gate = NoGate
    /\ \E retry \in 0..MaxRetry, patch \in {AddThenTestExtra, RemoveExtra} :
          env = [kind |-> "client", retry |-> retry, patch |-> patch, cpc |-> "idle",
                 i |-> 0, etag |-> <<>>, lastErr |-> 0, statuses |-> <<>>, reads |-> 0,
                 outcome |-> [kind |-> "none", status |-> 0]]

NextClient ==
    \/ StorePatch
    \/ StoreSnapshot
    \/ ClientStart
    \/ ClientPatch
    \/ ClientReread

SpecClient == InitClient /\ [][NextClient]_vars

(***************************************************************************)
(* The rotation ended with an error thrown after the first loop had        *)
(* renamed at least one file of the data directory to its backup.          *)
(***************************************************************************)
FailedAfterBackup == rot.pc = "failed" /\ Len(rot.backupMap) >= 1

BackedUp == {rot.backupMap[i] : i \in 1..Len(rot.backupMap)}

NoLeftovers ==
    \A f \in FileNames : ~fs[<<"bak", f>>].exists /\ ~fs[<<"stage", f>>].exists

(***************************************************************************)
(* C29: when the rotation ended with an error thrown after the backup      *)
(* renames began, each file that was renamed to a backup is back under its *)
(* original name with its original content, no file of the data directory  *)
(* is a staged file, and no backup and no staged file remains.             *)
(***************************************************************************)
RotationRollback ==
    FailedAfterBackup
    => /\ \A f \in BackedUp : fs[<<DATA, f>>] = rot.original[f]
       /\ \A f \in FileNames :
             fs[<<DATA, f>>].exists => fs[<<DATA, f>>] = rot.original[f]
       /\ NoLeftovers


(***************************************************************************)
(* A caller is inside the function it passed to withLock: fn has begun and *)
(* has neither returned nor thrown.                                        *)
(***************************************************************************)
InCriticalSection(c) == pc[c] \in {"readLedger", "commit", "ensure", "rewriteLedger"}

Queued(c) == pc[c] = "wait"

(***************************************************************************)
(* C30: at most one caller is inside a critical section of patchMemory,    *)
(* snapshot, initialize or rewriteEncryptedData; the journal a compaction  *)
(* has read is the journal on disk until the compaction ends; and a queued *)
(* caller waits only for a call that has not ended, so the promise of a    *)
(* critical section that threw is settled.                                 *)
(***************************************************************************)
MutualExclusion ==
    /\ \A c, d \in Callers : InCriticalSection(c) /\ InCriticalSection(d) => c = d
    /\ \A c \in Callers :
          pc[c] = "commit" /\ local[c].op = "snapshot"
          => local[c].entries = readLedgerEntries(fs, DATA, OldPass).entries
    /\ \A c \in Callers :
          Queued(c) /\ ~withLockMayRun(c)
          => \E d \in Callers : pc[d] # "idle" /\ local[d].mine = local[c].prior

(***************************************************************************)
(* A critical section has thrown while another caller was queued behind    *)
(* it, and that caller may now run.                                        *)
(***************************************************************************)
MutualExclusionWitness ==
    /\ ret.op = "patch"
    /\ ~ret.res.ok
    /\ calls = 2
    /\ \E c \in Callers \ {ret.caller} :
          Queued(c) /\ local[c].prior = 1 /\ withLockMayRun(c)

(***************************************************************************)
(* A compaction is inside its critical section, past its reads, while a    *)
(* patch call is queued behind it.                                         *)
(***************************************************************************)
CompactionHoldsLock ==
    \E c, d \in Callers :
        /\ pc[c] = "commit" /\ local[c].op = "snapshot"
        /\ Queued(d) /\ local[d].op = "patch" /\ local[d].prior = local[c].mine


(***************************************************************************)
(* The calls of withLock are numbered in the order they are made; a call   *)
(* is pending from its call to its return or throw.                        *)
(***************************************************************************)
Pending(c) == pc[c] # "idle"

FirstInFirstServed ==
    \A c, d \in Callers :
        InCriticalSection(c) /\ Pending(d) /\ d # c => local[d].mine > local[c].mine

(***************************************************************************)
(* C31: a caller inside its critical section called withLock before every  *)
(* other pending caller, and every caller that called withLock returns or  *)
(* throws, whether the calls before it returned or threw.                  *)
(***************************************************************************)
LockProgress ==
    /\ []FirstInFirstServed
    /\ \A c \in Callers : Pending(c) ~> ~Pending(c)

(***************************************************************************)
(* A caller that queued behind another call is inside its critical section *)
(* and a later call is queued behind it.                                   *)
(***************************************************************************)
LockProgressWitness ==
    \E c, d \in Callers :
        /\ InCriticalSection(c) /\ local[c].prior >= 1
        /\ Queued(d) /\ local[d].prior = local[c].mine


(***************************************************************************)
(* What each admission check of patchMemory finds for the last call, from  *)
(* the input and from the files as they were before the call.              *)
(***************************************************************************)
Malformed == ~jsonPatchSchema(env.patch)

BadIfMatch == parseIfMatch(env.ifMatch) = NULL

Stale == Before.ok /\ parseIfMatch(env.ifMatch) # Before.state.memory.version

Inapplicable == Before.ok /\ ~applyPatch(Before.state.memory.blocks, env.patch).ok

Failure(status, message) ==
    /\ ~env.res.ok
    /\ errorHandler(env.res.error).status = status
    /\ env.res.error.message = message

(***************************************************************************)
(* C32: the error of a patchMemory call is that of the first failing check *)
(* in the order patch schema, reserved paths, If-Match format, then, after *)
(* the files are read, version match, patch application.  A malformed      *)
(* patch fails on its schema and a reserved path on its own error whatever *)
(* the If-Match; a malformed If-Match fails with 400 and leaves the files  *)
(* as they were even when they cannot be read; a stale patch fails with    *)
(* 409 even when it does not apply.                                        *)
(***************************************************************************)
AdmissionOrder ==
    (env.called /\ env.op = "patch")
    => /\ Malformed => Failure(400, "Invalid JSON Patch schema")
       /\ (~Malformed /\ NamesReservedPath(env.patch))
          => Failure(422, "Patch cannot modify /version or /updated_at")
       /\ (~Malformed /\ ~NamesReservedPath(env.patch) /\ BadIfMatch)
          => Failure(400, "Invalid If-Match") /\ fs = env.before
       /\ (~Malformed /\ ~NamesReservedPath(env.patch) /\ ~BadIfMatch /\ Stale)
          => Failure(409, "Version conflict")
       /\ (/\ ~Malformed /\ ~NamesReservedPath(env.patch) /\ ~BadIfMatch
           /\ ~Stale /\ Inapplicable)
          => Failure(422, "Patch application failed")

(***************************************************************************)
(* A call with a patch that is stale and does not apply has ended with the *)
(* conflict error.                                                         *)
(***************************************************************************)
AdmissionOrderWitness ==
    /\ env.called /\ env.op = "patch"
    /\ ~Malformed /\ ~NamesReservedPath(env.patch) /\ ~BadIfMatch
    /\ Stale /\ Inapplicable
    /\ Failure(409, "Version conflict")

(***************************************************************************)
(* A call with a malformed If-Match on files that cannot be read has ended *)
(* with the bad-request error.                                             *)
(***************************************************************************)
BadIfMatchOnUnreadableFiles ==
    /\ env.called /\ env.op = "patch"
    /\ ~Malformed /\ ~NamesReservedPath(env.patch) /\ BadIfMatch
    /\ ~Before.ok
    /\ Failure(400, "Invalid If-Match")


(***************************************************************************)
(* The response to the last PATCH request, as the handler built it from    *)
(* the files it found.                                                     *)
(***************************************************************************)
LastReply == patchHandler(env.before, env.request, env.writeToken, now)

(***************************************************************************)
(* C33: after a PATCH request answered with success, the journal is read   *)
(* without error and getCurrentState returns the memory of the response    *)
(* with ledger_cursor equal to its applied_entry_cursor.                   *)
(***************************************************************************)
ReadYourWrites ==
    (env.handled /\ env.status = 200)
    => /\ readLedgerEntries(fs, DATA, OldPass).ok
       /\ Current.ok
       /\ Current.state.memory = LastReply.body.memory
       /\ Current.state.ledger_cursor = LastReply.body.applied_entry_cursor


(***************************************************************************)
(* The entries and the snapshot the files hold, and the ways a journal is  *)
(* inconsistent with itself or with the snapshot.                          *)
(***************************************************************************)
Stored == ledgerLines(fs, DATA)

Ahead == PersistedSnapshot.snapshot_cursor > Len(Stored)

NonContiguous == \E i \in 1..Len(Stored) : Stored[i].cursor # i

PrevHashBroken ==
    \E i \in 1..Len(Stored) :
        Stored[i].prev_hash # (IF i = 1 THEN EMPTY_HASH ELSE Stored[i - 1].entry_hash)

EntryHashBroken ==
    \E i \in 1..Len(Stored) : Stored[i].entry_hash # computeEntryHash(hashInput(Stored[i]))

BaseVersionBroken ==
    \E i \in (PersistedSnapshot.snapshot_cursor + 1)..Len(Stored) :
        Stored[i].base_version
            # (IF i = PersistedSnapshot.snapshot_cursor + 1
               THEN PersistedSnapshot.memory.version
               ELSE Stored[i - 1].new_version)

(***************************************************************************)
(* C34: on files whose envelopes all decode, getCurrentState fails with    *)
(* StorageCorruptionError when snapshot_cursor exceeds the number of       *)
(* entries, when the cursors are not 1, 2, 3, ..., when a prev_hash or an  *)
(* entry_hash does not match, or when an entry beyond snapshot_cursor has  *)
(* a base_version that is not the version reached; when it succeeds, the   *)
(* memory is the snapshot's memory with only the entries beyond            *)
(* snapshot_cursor applied.                                                *)
(***************************************************************************)
StateAssemblyRejects ==
    env.foreign \notin {"vault", "line"}
    => /\ (Ahead \/ NonContiguous \/ PrevHashBroken \/ EntryHashBroken \/ BaseVersionBroken)
          => IsCorruption(Current)
       /\ Current.ok
          => /\ Current.state.memory
                = replayLedger([PersistedSnapshot EXCEPT !.snapshot_cursor = 0],
                               [i \in 1..(Len(Stored) - PersistedSnapshot.snapshot_cursor) |->
                                   [Stored[i + PersistedSnapshot.snapshot_cursor]
                                       EXCEPT !.cursor = i]]).state.memory
             /\ PersistedSnapshot.snapshot_cursor = Len(Stored)
                => Current.state.memory = PersistedSnapshot.memory

(***************************************************************************)
(* The journal has entries, all with contiguous cursors and matching       *)
(* hashes but the last with a prev_hash that does not match, and           *)
(* getCurrentState has failed.                                             *)
(***************************************************************************)
StateAssemblyRejectsWitness ==
    /\ Len(Stored) >= 2
    /\ PrevHashBroken
    /\ ~NonContiguous /\ ~EntryHashBroken /\ ~Ahead /\ ~BaseVersionBroken
    /\ IsCorruption(Current)


(***************************************************************************)
(* The pull of the agent ended: the last page had has_more false and its   *)
(* entries were replayed.                                                  *)
(***************************************************************************)
PullEnded == env.pages >= 1 /\ (env.apc = "retry" \/ env.retried)

(***************************************************************************)
(* C35: the entries a client receives from the pages it requests from its  *)
(* cursor on, each from the next_cursor of the page before while has_more  *)
(* is true, are the journal entries after that cursor, each once and in    *)
(* order; when has_more is false it has received every entry the journal   *)
(* held when it requested the last page; and no page but the last is       *)
(* empty, so the pages are at most one more than the entries.              *)
(***************************************************************************)
PaginationTraversal ==
    /\ \A i \in 1..Len(env.got) :
          /\ env.got[i].cursor = env.from + i
          /\ env.got[i] = Stored[env.from + i]
    /\ env.pages <= Len(env.got) + 1
    /\ PullEnded => env.from + Len(env.got) = env.present


(***************************************************************************)
(* The lines of the journal file and the stored snapshot, now and before   *)
(* the last call.                                                          *)
(***************************************************************************)
JournalFile == fs[<<DATA, LEDGER>>].data

JournalFileBefore == env.before[<<DATA, LEDGER>>].data

SnapshotBefore == env.before[<<DATA, VAULT>>].data.sealed.payload

(***************************************************************************)
(* C36: no call of patchMemory or snapshot, whether it succeeds or fails,  *)
(* modifies or removes a journal line or lowers the snapshot_cursor of the *)
(* stored snapshot, and the memory version, the journal length and the     *)
(* snapshot_cursor that getCurrentState returns after the call are not     *)
(* below those it returned before.                                         *)
(***************************************************************************)
Monotonicity ==
    /\ Len(JournalFile) >= Len(JournalFileBefore)
    /\ SubSeq(JournalFile, 1, Len(JournalFileBefore)) = JournalFileBefore
    /\ PersistedSnapshot.snapshot_cursor >= SnapshotBefore.snapshot_cursor
    /\ PersistedSnapshot.memory.version >= SnapshotBefore.memory.version
    /\ (Before.ok /\ Current.ok)
       => /\ Current.state.memory.version >= Before.state.memory.version
          /\ Current.state.ledger_cursor >= Before.state.ledger_cursor
          /\ Current.state.snapshot_cursor >= Before.state.snapshot_cursor

(***************************************************************************)
(* A patch has failed after a patch succeeded and a compaction moved the   *)
(* snapshot forward.                                                       *)
(***************************************************************************)
MonotonicityWitness ==
    /\ env.called /\ env.op = "patch" /\ ~env.res.ok
    /\ Current.ok
    /\ Current.state.memory.version >= 1
    /\ Current.state.snapshot_cursor >= 1


(***************************************************************************)
(* C37: a run of ensureDataFiles leaves every file that existed as it was  *)
(* and creates each missing one: vault.enc with the empty memory at        *)
(* version 0 and snapshot_cursor 0, an empty ledger.jsonl.enc, meta.json   *)
(* with the defaults; a second run, also at a later time, changes nothing; *)
(* and after a run on an empty directory getCurrentState returns version   *)
(* 0, the four reserved blocks empty, snapshot_cursor 0 and ledger_cursor  *)
(* 0.                                                                      *)
(***************************************************************************)
Missing(f) == ~env.before[<<DATA, f>>].exists

EnsureFillsGaps ==
    env.called
    => /\ \A p \in Paths : env.before[p].exists \/ p[1] # DATA => fs[p] = env.before[p]
       /\ \A f \in FileNames : fs[<<DATA, f>>].exists
       /\ Missing(VAULT)
          => /\ PersistedSnapshot.memory.version = 0
             /\ \A k \in ReservedKeys : PersistedSnapshot.memory.blocks[k] = EMPTY_OBJECT
             /\ PersistedSnapshot.memory.blocks["extra"] = ABSENT
             /\ PersistedSnapshot.snapshot_cursor = 0
       /\ Missing(LEDGER) => JournalFile = <<>>
       /\ Missing(META) => fs[<<DATA, META>>].data = defaultMeta(env.at)
       /\ ensureDataFiles(fs, DATA, OldPass, now) = fs
       /\ (\A f \in FileNames : Missing(f))
          => /\ Current.ok
             /\ Current.state.memory.version = 0
             /\ \A k \in ReservedKeys : Current.state.memory.blocks[k] = EMPTY_OBJECT
             /\ Current.state.memory.blocks["extra"] = ABSENT
             /\ Current.state.snapshot_cursor = 0
             /\ Current.state.ledger_cursor = 0

(***************************************************************************)
(* ensureDataFiles ran, at a later time than the files it found were       *)
(* written, on a directory with a journal of two entries and a snapshot    *)
(* beyond version 0 in which only meta.json was missing.                   *)
(***************************************************************************)
EnsureFillsGapsWitness ==
    /\ env.called
    /\ Missing(META) /\ ~Missing(VAULT) /\ ~Missing(LEDGER)
    /\ env.at = 1
    /\ Len(JournalFile) = 2
    /\ PersistedSnapshot.snapshot_cursor >= 1
    /\ fs[<<DATA, META>>].data.updated_at = 1


(***************************************************************************)
(* C38: etagForVersion(n) is the text "v<n>" in double quotes with n in    *)
(* decimal, parseIfMatch gives n back for it, and parseIfMatch returns a   *)
(* number only for a text that is exactly the entity tag of that number,   *)
(* null for every other text.                                              *)
(***************************************************************************)
Formatted == env.called /\ env.version # NULL

EtagRoundTrip ==
    /\ Formatted
       => /\ env.text = <<QUOTE, "v">> \o DecimalString(env.version) \o <<QUOTE>>
          /\ env.parsed = env.version
    /\ env.called /\ env.parsed # NULL => env.text = etagForVersion(env.parsed)

(* The part of C38 that the code keeps: the format, the round trip, and    *)
(* null for every text that is not an entity tag once trimmed.             *)
EtagRoundTripTrimmed ==
    /\ Formatted
       => /\ env.text = <<QUOTE, "v">> \o DecimalString(env.version) \o <<QUOTE>>
          /\ env.parsed = env.version
    /\ env.called /\ env.parsed # NULL
       => \E trimmed \in {Trim(env.text)} :
          \E digits \in {SubSeq(trimmed, 3, Len(trimmed) - 1)} :
             /\ Len(digits) >= 1
             /\ \A i \in 1..Len(digits) : IsDigit(digits[i])
             /\ trimmed = <<QUOTE, "v">> \o digits \o <<QUOTE>>
             /\ env.parsed = ParseDecimal(digits)


(***************************************************************************)
(* The agent's fields came from a response of the server when it received  *)
(* the 409, and nobody has written since: at the end of the pull, and when *)
(* the second tryPatch was sent.                                           *)
(***************************************************************************)
Replayed == env.apc = "retry" /\ env.wasSynced /\ fs = env.at409

RetriedAlone == env.retried /\ env.wasSynced /\ env.retryBefore = env.at409

PullFailed == env.apc = "failed" /\ env.status = 409 /\ ~env.retried /\ env.pages >= 1

ServerAtRetry == getCurrentState(env.retryBefore, DATA, OldPass, now)

Converged ==
    /\ Replayed
       => /\ Current.ok
          /\ env.localVersion = Current.state.memory.version
          /\ env.localBlocks = Current.state.memory.blocks
          /\ env.ledgerCursor = Current.state.ledger_cursor
    /\ ~(PullFailed /\ env.wasSynced /\ fs = env.at409)

(***************************************************************************)
(* C39 as stated: an agent whose fields equal a past state of the server   *)
(* and that receives 409 has, after pulling and replaying the pages from   *)
(* its cursor, the version and blocks of the server's current state, and   *)
(* its second PATCH, sent with no writer in between, succeeds.             *)
(***************************************************************************)
ConflictRecovery ==
    /\ Converged
    /\ RetriedAlone => env.status = 200

(***************************************************************************)
(* C39, amended: the second PATCH never conflicts, and it succeeds when    *)
(* the patch applies to the blocks of the server's current state.          *)
(***************************************************************************)
ConflictRecoveryOfApplicablePatch ==
    /\ Converged
    /\ RetriedAlone
       => /\ env.status # 409
          /\ applyPatch(ServerAtRetry.state.memory.blocks, env.patch).ok
             => env.status = 200

(***************************************************************************)
(* A synced agent fell two versions behind, one of them compacted into the *)
(* snapshot, pulled the two entries in two pages, and its second PATCH     *)
(* was accepted.                                                           *)
(***************************************************************************)
ConflictRecoveryWitness ==
    /\ RetriedAlone
    /\ env.status = 200
    /\ env.pages >= 2
    /\ Len(env.got) = 2
    /\ PersistedSnapshot.snapshot_cursor >= 1


(***************************************************************************)
(* The call of applyWithRetry has ended; the PATCH requests it sent; the   *)
(* conflicts among them.                                                   *)
(***************************************************************************)
Ended == env.cpc \in {"returned", "thrown"}

Sent == Len(env.statuses)

Conflicts == Cardinality({j \in 1..Sent : env.statuses[j] = 409})

(***************************************************************************)
(* C40: applyWithRetry sends at most retry PATCH requests and ends after a  *)
(* bounded number of fetches (each of its steps is one fetch, and a step   *)
(* is possible until it has ended); it sends a                             *)
(* further one, after reading the ETag again, only after a 409; it returns *)
(* the first successful response; an error other than a conflict is        *)
(* thrown at once; and when all retry attempts conflicted it throws the    *)
(* last conflict error.                                                    *)
(***************************************************************************)
RetryLoop ==
    /\ Sent <= env.retry
    /\ env.reads + Sent <= 2 * env.retry + 1
    /\ Ended \/ env.cpc \in {"idle", "loop", "reread"}
    /\ \A j \in 1..(Sent - 1) : env.statuses[j] = 409
    /\ env.reads <= 1 + Conflicts
    /\ env.outcome.kind = "returned" <=> Sent >= 1 /\ env.statuses[Sent] = 200
    /\ Sent >= 1 /\ env.statuses[Sent] \notin {200, 409}
       => /\ env.cpc = "thrown"
          /\ env.outcome = [kind |-> "error", status |-> env.statuses[Sent]]
    /\ Ended /\ env.retry >= 1 /\ Conflicts = env.retry => env.outcome.kind = "conflict"

(***************************************************************************)
(* What the loop keeps of C40: everything but the error thrown when the    *)
(* getMemory of the catch block fails.                                     *)
(***************************************************************************)
RetryLoopBounded ==
    /\ Sent <= env.retry
    /\ env.reads + Sent <= 2 * env.retry + 1
    /\ Ended \/ env.cpc \in {"idle", "loop", "reread"}
    /\ \A j \in 1..(Sent - 1) : env.statuses[j] = 409
    /\ env.reads <= 1 + Conflicts
    /\ env.outcome.kind = "returned" <=> Sent >= 1 /\ env.statuses[Sent] = 200
    /\ Sent >= 1 /\ env.statuses[Sent] \notin {200, 409}
       => /\ env.cpc = "thrown"
          /\ env.outcome = [kind |-> "error", status |-> env.statuses[Sent]]
    /\ Ended /\ env.retry >= 1 /\ Conflicts = env.retry
       => \/ env.outcome.kind = "conflict"
          \/ env.outcome.kind = "error" /\ env.reads = 1 + Conflicts

=============================================================================
